---- MODULE Spec2Model ----
(***************************************************************************)
(* Hybrid model router (openclaw-local/dist/agents/hybrid-router.js).      *)
(*                                                                         *)
(* Weights and thresholds are written in hundredths (0.15 is 15, the        *)
(* threshold 0.5 is 50); scores are the doubles the source computes from    *)
(* them (see Dbl and Plus).                                                 *)
(*                                                                         *)
(* A user text is a sequence of vocabulary tokens (each a word or a fixed  *)
(* phrase of the source's keyword tables) followed by `pad` filler words   *)
(* that match no keyword; the regular expressions of the source are        *)
(* modelled by what they accept on such texts.                             *)
(*                                                                         *)
(* Five specifications share the variables:                                *)
(*   Spec       one wrapper and the routing decision of one call;          *)
(*   SpecCalls  several wrappers in one process and wrapped calls that     *)
(*              overlap at the await of the credential resolution;         *)
(*   SpecAdapt  the objects of one wrapped call (context, messages array,  *)
(*              tools array, tool objects, options) and their aliasing.    *)
(*   SpecScore  the classification of a text and of the same text with    *)
(*              one more keyword;                                          *)
(*   SpecLauncher  hybrid-claw.sh in tui mode: the gateway process, its    *)
(*              PID file and the EXIT trap.                                *)
(***************************************************************************)
EXTENDS Integers, Sequences, FiniteSets, TLC

VARIABLES
    cfg,        \* params.cfg, the host's configuration object
    host,       \* what the host holds outside it: agent auth file, env, models
    wrapper,    \* "none" before construction, then "installed" or "null"
    routerCfg,  \* resolveHybridRouterConfig(params.cfg)
    models,     \* { local, localText, cloud } resolved once at construction
    context,    \* the context of the routed call
    decision,   \* what makeRoutingDecision returned for it
    prompts,    \* LOCAL_TOOL_SYSTEM_PROMPT and LOCAL_TEXT_SYSTEM_PROMPT of the module
    resolves,   \* what resolveApiKeyForProvider yields for each provider
    wrappers,   \* the wrappers created in this process, in order of creation
    calls,      \* the wrapped calls, in order of invocation
    heap,       \* the objects of one wrapped call and the references between them
    probe,      \* a text, the text with a keyword added, and their classifications
    launcher    \* hybrid-claw.sh: the script's position, the gateway, its PID file

vars == <<cfg, host, wrapper, routerCfg, models, context, decision,
          prompts, resolves, wrappers, calls, heap, probe, launcher>>

----------------------------------------------------------------------------
(* Bounds of the model *)

\* tokens of a user text (filler words not counted)
MaxToks == 2

\* tool calls carried by one assistant message
MaxToolCalls == 4

\* wrappers created in one process
MaxWrappers == 2

\* wrapped calls, concurrent or one after the other
MaxCalls == 2
MaxTools == 2
MaxChanges == 2

\* tokens of a text a keyword is added to
MaxScoreToks == 2

\* filler words appended to a text: none, and just below each word-count step
Pads == {0, 11, 99, 299}

\* the vocabulary the texts are built from
Vocab == {"explain", "find", "best", "latest", "buy",
          "read", "file", "list", "yes", "hello"}

----------------------------------------------------------------------------
(* Scores are IEEE-754 doubles. With K = (2^56 - 36) / 100, the record [h, e]
   stands for the double (h * K + e) * 2^-56: h counts hundredths and e is a
   small offset in units of 2^-56. Every score of the classifier is a multiple
   of 2^-56 below 4, so the representation is exact, and sums are rounded to
   53 significant bits, ties to even, as the machine does. *)

\* K mod 64
KMod64 == 15

\* h * K + e >= hb * K + eb, for offsets far smaller than K
AtLeastRaw(h, e, hb, eb) == h > hb \/ (h = hb /\ e >= eb)

\* the spacing of the doubles around a non-negative value, in units of 2^-56:
\* 1 = 100 K + 36, 1/2 = 50 K + 18, 1/4 = 25 K + 9, 1/8 = 12.5 K + 4.5
Ulp(h, e) ==
    IF AtLeastRaw(h, e, 200, 72) THEN 32
    ELSE IF AtLeastRaw(h, e, 100, 36) THEN 16
    ELSE IF AtLeastRaw(h, e, 50, 18) THEN 8
    ELSE IF AtLeastRaw(h, e, 25, 9) THEN 4
    ELSE IF h >= 13 THEN 2
    ELSE 1

\* round a non-negative value to the nearest double, ties to the even one
RoundPos(h, e) ==
    LET u == Ulp(h, e)
        r2 == (h * KMod64 + e) % (2 * u)
        r == r2 % u
    IN  IF 2 * r < u \/ (2 * r = u /\ r2 < u)
        THEN [h |-> h, e |-> e - r]
        ELSE [h |-> h, e |-> e + u - r]

RoundDbl(h, e) ==
    IF h < 0 \/ (h = 0 /\ e < 0)
    THEN [h |-> h, e |-> -(RoundPos(-h, -e).e)]
    ELSE RoundPos(h, e)

\* the offset of the double a literal of h hundredths denotes (h = 0 or h >= 7):
\* the multiple of the spacing nearest to h * 2^56 / 100 = h * K + 9 h / 25
LitPos(h) ==
    LET u == Ulp(h, 36)
        r == (25 * ((h * KMod64) % u) + 9 * h) % (25 * u)
    IN  IF 2 * r < 25 * u THEN (9 * h - r) \div 25 ELSE (9 * h - r + 25 * u) \div 25

\* the double written as the decimal literal h / 100
Dbl(h) == IF h >= 0 THEN [h |-> h, e |-> LitPos(h)] ELSE [h |-> h, e |-> -LitPos(-h)]

\* x + y
Plus(x, y) == RoundDbl(x.h + y.h, x.e + y.e)

\* x < y
Less(x, y) == x.h < y.h \/ (x.h = y.h /\ x.e < y.e)

----------------------------------------------------------------------------
(* Absent values: null / undefined of the source *)

\* an optional field of the config file: <<>> when absent, <<v>> when set to v
Absent == <<>>
Set(v) == <<v>>
NoModel == [provider |-> "null", id |-> "null"]
NoRegex == [kind |-> "null", source |-> "null"]
NoDecision == [target |-> "none", model |-> NoModel, reason |-> "none",
               score |-> Dbl(0), tags |-> <<>>]
NoRouterCfg == [enabled |-> FALSE]
NoModels == [local |-> NoModel, localText |-> NoModel, cloud |-> NoModel]
NoContext == [messages |-> <<>>]
NoProbe == [phase |-> "none"]
NoLauncher == [pc |-> "none"]

\* a ?? b
OrElse(a, b) == IF a = Absent THEN b ELSE a[1]

----------------------------------------------------------------------------
(* Texts and regular expressions *)

RECURSIVE SumSeq(_)
SumSeq(s) == IF s = <<>> THEN 0 ELSE Head(s) + SumSeq(Tail(s))

\* words of a token: the phrases of the keyword tables are several words long
TokWords(t) ==
    IF t = "step by step" THEN 3
    ELSE IF t \in {"in detail", "how does", "what causes", "look up",
                   "highest rated", "help me", "thank you"} THEN 2
    ELSE 1

EmptyText == [toks |-> <<>>, pad |-> 0]

\* text.split(/\s+/).length: the empty string splits into one (empty) word
WordCount(text) ==
    IF text.toks = <<>> /\ text.pad = 0 THEN 1
    ELSE SumSeq([i \in 1..Len(text.toks) |-> TokWords(text.toks[i])]) + text.pad

\* /\b(a|b|c)\b/i
Word(alts) == [kind |-> "word", alts |-> alts]
\* /\b(a|b|c)\s+\w+/i
WordThenWord(alts) == [kind |-> "wordThenWord", alts |-> alts]
\* /\b(a|b)\s+(the\s+)?(x|y)/i
VerbObject(verbs, objs) == [kind |-> "verbObject", alts |-> verbs, objs |-> objs]
\* /^(a|b|c)\s*[.!?]?\s*$/i
Whole(alts) == [kind |-> "whole", alts |-> alts]
\* /a.*b/i
Then(a, b, src) == [kind |-> "then", alts |-> {a}, objs |-> {b}, source |-> src]

\* rx.test(text)
RegexTest(rx, text) ==
    LET toks == text.toks
        n == Len(toks)
    IN  CASE rx.kind = "word" ->
                \E i \in 1..n : toks[i] \in rx.alts
          [] rx.kind = "wordThenWord" ->
                \E i \in 1..n : toks[i] \in rx.alts /\ (i < n \/ text.pad > 0)
          [] rx.kind = "verbObject" ->
                \E i \in 1..n :
                    /\ toks[i] \in rx.alts
                    /\ \/ i + 1 <= n /\ toks[i + 1] \in rx.objs
                       \/ i + 2 <= n /\ toks[i + 1] = "the" /\ toks[i + 2] \in rx.objs
          [] rx.kind = "whole" ->
                n = 1 /\ text.pad = 0 /\ toks[1] \in rx.alts
          [] rx.kind = "then" ->
                \E i \in 1..n : \E j \in 1..n :
                    i < j /\ toks[i] \in rx.alts /\ toks[j] \in rx.objs
          [] OTHER -> FALSE

----------------------------------------------------------------------------
(* Config resolution *)

\* new RegExp(pattern, "i"), null for a pattern that does not compile
safeRegex(pattern) ==
    CASE pattern = "explain.*in detail" -> Then("explain", "in detail", pattern)
      [] pattern = "read.*file" -> Then("read", "file", pattern)
      [] pattern = "^(yes|no|ok|sure)$" ->
            [kind |-> "whole", alts |-> {"yes", "no", "ok", "sure"}, source |-> pattern]
      [] pattern = "list" ->
            [kind |-> "word", alts |-> {"list"}, source |-> pattern]
      [] pattern = "find" ->
            [kind |-> "word", alts |-> {"find"}, source |-> pattern]
      [] OTHER -> NoRegex

MapRegex(patterns) == [i \in 1..Len(patterns) |-> safeRegex(patterns[i])]

resolveHybridRouterConfig(c) ==
    LET rc == c.hybridRouter
    IN  IF ~rc.enabled THEN NoRouterCfg
        ELSE [enabled |-> TRUE,
              preference |-> OrElse(rc.preference, "prefer-local"),
              localModel |-> OrElse(rc.localModel,
                                    [provider |-> "ollama", id |-> "functiongemma"]),
              localTextModel |-> OrElse(rc.localTextModel, NoModel),
              cloudModel |-> OrElse(rc.cloudModel, NoModel),
              routing |-> [
                  complexityThreshold |-> OrElse(rc.routing.complexityThreshold, 50),
                  toolCallsPreferLocal |-> OrElse(rc.routing.toolCallsPreferLocal, TRUE),
                  maxLocalResponseTokens |-> OrElse(rc.routing.maxLocalResponseTokens, 500),
                  forceCloudPatterns |-> MapRegex(rc.routing.forceCloudPatterns),
                  forceLocalPatterns |-> MapRegex(rc.routing.forceLocalPatterns)],
              fallback |-> [
                  onCloudUnavailable |-> OrElse(rc.fallback.onCloudUnavailable, "local-text"),
                  onLocalError |-> OrElse(rc.fallback.onLocalError, "cloud")]]

----------------------------------------------------------------------------
(* Message helpers *)

UserMsg(text) ==
    [role |-> "user", content |-> text, toolCalls |-> 0, provider |-> "none"]
AssistantMsg(provider, n) ==
    [role |-> "assistant", content |-> EmptyText, toolCalls |-> n,
     provider |-> provider]
ToolResultMsg ==
    [role |-> "toolResult", content |-> EmptyText, toolCalls |-> 0,
     provider |-> "none"]

RECURSIVE lastUserTextFrom(_, _)
lastUserTextFrom(messages, i) ==
    IF i = 0 THEN EmptyText
    ELSE IF messages[i].role = "user" THEN messages[i].content
    ELSE lastUserTextFrom(messages, i - 1)

lastUserText(messages) == lastUserTextFrom(messages, Len(messages))

isPostToolTurn(messages) ==
    IF Len(messages) = 0 THEN FALSE
    ELSE messages[Len(messages)].role = "toolResult"

Lookback == 10

\* messages.slice(-lookback)
SliceLast(messages, k) ==
    IF Len(messages) <= k THEN messages
    ELSE SubSeq(messages, Len(messages) - k + 1, Len(messages))

recentToolCallCount(messages) ==
    LET window == SliceLast(messages, Lookback)
    IN  SumSeq([i \in 1..Len(window) |->
                   IF window[i].role = "assistant" THEN window[i].toolCalls ELSE 0])

----------------------------------------------------------------------------
(* Complexity classification *)

COMPLEX_KEYWORDS == <<
    [re |-> Word({"explain", "describe", "elaborate"}), w |-> 15, tag |-> "explanation"],
    [re |-> Word({"implement", "create", "build", "develop"}), w |-> 20, tag |-> "implementation"],
    [re |-> Word({"refactor", "optimize", "improve", "restructure"}), w |-> 20, tag |-> "refactoring"],
    [re |-> Word({"debug", "fix", "solve", "troubleshoot"}), w |-> 15, tag |-> "debugging"],
    [re |-> Word({"analyze", "compare", "evaluate", "review"}), w |-> 15, tag |-> "analysis"],
    [re |-> Word({"why", "how does", "what causes"}), w |-> 10, tag |-> "reasoning"],
    [re |-> Word({"step by step", "in detail", "thoroughly"}), w |-> 15, tag |-> "detail-request"],
    [re |-> WordThenWord({"write", "generate", "compose"}), w |-> 15, tag |-> "generation"],
    [re |-> Word({"find", "search", "look up", "google", "browse"}), w |-> 35, tag |-> "search"],
    [re |-> Word({"recommend", "suggest", "best", "top", "highest rated"}), w |-> 30, tag |-> "recommendation"],
    [re |-> Word({"latest", "recent", "current", "today", "news", "price"}), w |-> 30, tag |-> "real-time"],
    [re |-> Word({"buy", "purchase", "order", "shop", "deal", "discount"}), w |-> 25, tag |-> "shopping"],
    [re |-> Word({"summarize", "plan", "design", "architect"}), w |-> 20, tag |-> "planning"],
    [re |-> Word({"help me", "assist", "guide"}), w |-> 10, tag |-> "assistance"] >>

\* faulty variant: the command keywords add to the score
SIMPLE_KEYWORDS_CommandAdds == <<
    [re |-> VerbObject({"read", "cat", "show", "display", "print"}, {"file", "content"}),
     w |-> -25, tag |-> "file-read"],
    [re |-> Word({"list", "ls", "dir"}), w |-> -20, tag |-> "directory"],
    [re |-> Word({"run", "execute", "exec"}), w |-> 10, tag |-> "command"],
    [re |-> Whole({"yes", "no", "ok", "okay", "sure", "confirm", "yep", "nah"}),
     w |-> -35, tag |-> "confirmation"],
    [re |-> Whole({"hello", "hi", "hey", "thanks", "thank you"}),
     w |-> -30, tag |-> "greeting"] >>

SIMPLE_KEYWORDS == <<
    [re |-> VerbObject({"read", "cat", "show", "display", "print"}, {"file", "content"}),
     w |-> -25, tag |-> "file-read"],
    [re |-> Word({"list", "ls", "dir"}), w |-> -20, tag |-> "directory"],
    [re |-> Word({"run", "execute", "exec"}), w |-> -10, tag |-> "command"],
    [re |-> Whole({"yes", "no", "ok", "okay", "sure", "confirm", "yep", "nah"}),
     w |-> -35, tag |-> "confirmation"],
    [re |-> Whole({"hello", "hi", "hey", "thanks", "thank you"}),
     w |-> -30, tag |-> "greeting"] >>

Min(a, b) == IF Less(a, b) THEN a ELSE b
Max(a, b) == IF Less(b, a) THEN a ELSE b

\* faulty variant: the upper limit of the clamp is lost
Clamp_NoUpper(score) == Max(Dbl(0), score)

\* Math.max(0, Math.min(1, score))
Clamp(score) == Max(Dbl(0), Min(Dbl(100), score))

\* score += w for each weight in turn
RECURSIVE AddAll(_, _)
AddAll(score, weights) ==
    IF weights = <<>> THEN score
    ELSE AddAll(Plus(score, Dbl(Head(weights))), Tail(weights))

\* the entries of a keyword table whose expression matches the text
Matching(table, text) == SelectSeq(table, LAMBDA k : RegexTest(k.re, text))

Weights(entries) == [i \in 1..Len(entries) |-> entries[i].w]
Tags(entries) == [i \in 1..Len(entries) |-> entries[i].tag]

\* the first pattern of the list that matches, 0 if none does
RECURSIVE FirstMatchFrom(_, _, _)
FirstMatchFrom(patterns, text, i) ==
    IF i > Len(patterns) THEN 0
    ELSE IF patterns[i] # NoRegex /\ RegexTest(patterns[i], text) THEN i
    ELSE FirstMatchFrom(patterns, text, i + 1)

FirstMatch(patterns, text) == FirstMatchFrom(patterns, text, 1)

NotComplexTags == {"long-prompt", "very-long-prompt", "file-read", "directory",
                   "command", "confirmation", "greeting", "tool-heavy-ctx"}

\* the running score and tags after the word-count boosts and both keyword tables
KeywordScore(words, complex, simple) ==
    LET long == IF words > 100 THEN <<[w |-> 15, tag |-> "long-prompt"]>> ELSE <<>>
        veryLong == IF words > 300 THEN <<[w |-> 15, tag |-> "very-long-prompt"]>> ELSE <<>>
    IN  [score |-> AddAll(Dbl(0), Weights(long \o veryLong \o complex \o simple)),
         tags |-> Tags(long \o veryLong \o complex \o simple)]

\* multi-signal boost, detailed-query boost, tool-heavy discount, clamp
Boosts(kw, words, complexTagCount, toolHeavy) ==
    LET multi == complexTagCount >= 2
        detailed == words > 12 /\ complexTagCount >= 1
    IN  [score |-> Clamp(AddAll(kw.score, (IF multi THEN <<15>> ELSE <<>>)
                                        \o (IF detailed THEN <<10>> ELSE <<>>)
                                        \o (IF toolHeavy THEN <<-10>> ELSE <<>>))),
         reason |-> "heuristic",
         tags |-> kw.tags \o (IF multi THEN <<"multi-signal">> ELSE <<>>)
                         \o (IF detailed THEN <<"detailed-query">> ELSE <<>>)
                         \o (IF toolHeavy THEN <<"tool-heavy-ctx">> ELSE <<>>)]

ComplexTagCount(tags) == Len(SelectSeq(tags, LAMBDA t : t \notin NotComplexTags))

Scored(kw, words, toolHeavy) == Boosts(kw, words, ComplexTagCount(kw.tags), toolHeavy)

\* the heuristic part of classifyComplexity
HeuristicScore(messages, text) ==
    Scored(KeywordScore(WordCount(text), Matching(COMPLEX_KEYWORDS, text),
                        Matching(SIMPLE_KEYWORDS, text)),
           WordCount(text), recentToolCallCount(messages) > 3)

\* faulty variant: the local list is tried before the cloud list
ForcePatterns_LocalFirst(routingCfg, text) ==
    LET fc == FirstMatch(routingCfg.forceCloudPatterns, text)
        fl == FirstMatch(routingCfg.forceLocalPatterns, text)
    IN  IF fl # 0
        THEN [score |-> Dbl(0), reason |-> "force-local",
              tags |-> <<routingCfg.forceLocalPatterns[fl].source>>]
        ELSE IF fc # 0
        THEN [score |-> Dbl(100), reason |-> "force-cloud",
              tags |-> <<routingCfg.forceCloudPatterns[fc].source>>]
        ELSE [score |-> Dbl(0), reason |-> "none", tags |-> <<>>]

NoClass == [score |-> Dbl(0), reason |-> "none", tags |-> <<>>]

\* force-match patterns (instant decision): the cloud list first, then the local
\* list; NoClass when neither list has a pattern that matches
ForcePatterns(routingCfg, text) ==
    LET fc == FirstMatch(routingCfg.forceCloudPatterns, text)
        fl == FirstMatch(routingCfg.forceLocalPatterns, text)
    IN  IF fc # 0
        THEN [score |-> Dbl(100), reason |-> "force-cloud",
              tags |-> <<routingCfg.forceCloudPatterns[fc].source>>]
        ELSE IF fl # 0
        THEN [score |-> Dbl(0), reason |-> "force-local",
              tags |-> <<routingCfg.forceLocalPatterns[fl].source>>]
        ELSE NoClass

\* faulty variant: the post-tool rule is tried before the force patterns
Classify_PostToolFirst(messages, text, forced) ==
    IF isPostToolTurn(messages)
    THEN [score |-> Dbl(0), reason |-> "post-tool-turn", tags |-> <<"post-tool">>]
    ELSE IF forced # NoClass THEN forced
    ELSE HeuristicScore(messages, text)

\* the rules of classifyComplexity in order, on the last user text
Classify(messages, text, forced) ==
    IF forced # NoClass THEN forced
    ELSE IF isPostToolTurn(messages)
    THEN [score |-> Dbl(0), reason |-> "post-tool-turn", tags |-> <<"post-tool">>]
    ELSE HeuristicScore(messages, text)

classifyComplexity(ctx, routingCfg) ==
    Classify(ctx.messages, lastUserText(ctx.messages),
             ForcePatterns(routingCfg, lastUserText(ctx.messages)))

----------------------------------------------------------------------------
(* Cloud API key detection *)

ENV_KEY_MAP == [p \in {"anthropic", "openai", "google", "openrouter", "groq",
                       "xai", "mistral"} |->
    CASE p = "anthropic" -> "ANTHROPIC_API_KEY"
      [] p = "openai" -> "OPENAI_API_KEY"
      [] p = "google" -> "GOOGLE_API_KEY"
      [] p = "openrouter" -> "OPENROUTER_API_KEY"
      [] p = "groq" -> "GROQ_API_KEY"
      [] p = "xai" -> "XAI_API_KEY"
      [] p = "mistral" -> "MISTRAL_API_KEY"]

\* key.startsWith(p): a profile key is its leading segment followed by the rest
StartsWith(key, p) == Len(key) >= 1 /\ key[1] = p

hasCloudApiKey(cloudModelRef, c, h) ==
    IF cloudModelRef = NoModel THEN FALSE
    ELSE LET p == cloudModelRef.provider
         IN  \/ \E profile \in c.auth.profiles :
                    /\ StartsWith(profile.key, p)
                    /\ (profile.apiKey \/ profile.mode = "token")
             \/ /\ h.authFile
                /\ \E profile \in h.agentProfiles :
                    /\ StartsWith(profile.key, p)
                    /\ (profile.token \/ profile.apiKey \/ profile.type = "oauth")
             \/ /\ p \in DOMAIN ENV_KEY_MAP
                /\ ENV_KEY_MAP[p] \in h.env
             \/ /\ p = "anthropic"
                /\ "ANTHROPIC_OAUTH_TOKEN" \in h.env

----------------------------------------------------------------------------
(* Model resolution *)

\* resolveModel binds the references the host knows; anything else is null
resolveModelRef(ref, h) ==
    IF ref = NoModel THEN NoModel
    ELSE IF ref \in h.resolvable THEN ref
    ELSE NoModel

----------------------------------------------------------------------------
(* Routing decision *)

pick(target, model, reason, score, tags) ==
    [target |-> target, model |-> model, reason |-> reason, score |-> score,
     tags |-> tags]

SeqHas(s, set) == \E i \in 1..Len(s) : s[i] \in set

\* faulty variant: shopping is missing from the set
CLOUD_REQUIRED_TAGS_NoShopping == {"search", "recommendation", "real-time"}

CLOUD_REQUIRED_TAGS == {"search", "recommendation", "real-time", "shopping"}

\* faulty variant: a confirmation is not tool-like
TOOL_LIKE_TAGS_NoConfirmation == {"file-read", "directory", "command", "tool-heavy-ctx",
                                  "post-tool"}

TOOL_LIKE_TAGS == {"file-read", "directory", "command", "tool-heavy-ctx",
                   "post-tool", "confirmation"}

\* faulty variant: a credential is enough, the cloud model need not be resolved
CloudAvailable_KeyOnly(rcfg, m, c, h) == hasCloudApiKey(rcfg.cloudModel, c, h)

\* models.cloud && hasCloudApiKey(routerCfg.cloudModel, cfg, agentDir)
CloudAvailable(rcfg, m, c, h) ==
    m.cloud # NoModel /\ hasCloudApiKey(rcfg.cloudModel, c, h)

\* models.localText ?? models.local
TextOrLocal(m) == IF m.localText # NoModel THEN m.localText ELSE m.local

\* Each rule of makeRoutingDecision returns its decision, or NoDecision when
\* the rule does not apply and the next one is tried.

\* faulty variant: the local-only mode is not tested
AbsolutePreference_SkipsLocalOnly(pref, cloudAvailable, m, score, tags) ==
    IF pref = "cloud-only"
    THEN IF cloudAvailable
         THEN pick("cloud", m.cloud, "pref:cloud-only", score, tags)
         ELSE pick("local", m.local, "pref:cloud-only-no-key", score, tags)
    ELSE NoDecision

\* faulty variant: cloud-only without a key degrades like the other rules, to local-text
AbsolutePreference_TextFallback(pref, cloudAvailable, m, score, tags) ==
    IF pref = "local-only"
    THEN pick("local", m.local, "pref:local-only", score, tags)
    ELSE IF pref = "cloud-only"
    THEN IF cloudAvailable
         THEN pick("cloud", m.cloud, "pref:cloud-only", score, tags)
         ELSE pick("local-text", TextOrLocal(m), "pref:cloud-only-no-key", score, tags)
    ELSE NoDecision

\* absolute preference modes
AbsolutePreference(pref, cloudAvailable, m, score, tags) ==
    IF pref = "local-only"
    THEN pick("local", m.local, "pref:local-only", score, tags)
    ELSE IF pref = "cloud-only"
    THEN IF cloudAvailable
         THEN pick("cloud", m.cloud, "pref:cloud-only", score, tags)
         ELSE pick("local", m.local, "pref:cloud-only-no-key", score, tags)
    ELSE NoDecision

\* faulty variant: a force-local classification is not decided here
ForceDecided_DropsForceLocal(reason, cloudAvailable, m, score, tags) ==
    IF reason = "force-cloud"
    THEN IF cloudAvailable
         THEN pick("cloud", m.cloud, reason, score, tags)
         ELSE pick("local-text", TextOrLocal(m), "force-cloud-no-key", score, tags)
    ELSE IF reason = "post-tool-turn"
    THEN pick("local", m.local, reason, score, tags)
    ELSE NoDecision

\* faulty variant: the availability test of force-cloud is inverted
ForceDecided_Inverted(reason, cloudAvailable, m, score, tags) ==
    IF reason = "force-cloud"
    THEN IF ~cloudAvailable
         THEN pick("cloud", m.cloud, reason, score, tags)
         ELSE pick("local-text", TextOrLocal(m), "force-cloud-no-key", score, tags)
    ELSE IF reason = "force-local" \/ reason = "post-tool-turn"
    THEN pick("local", m.local, reason, score, tags)
    ELSE NoDecision

\* force patterns already decided
ForceDecided(reason, cloudAvailable, m, score, tags) ==
    IF reason = "force-cloud"
    THEN IF cloudAvailable
         THEN pick("cloud", m.cloud, reason, score, tags)
         ELSE pick("local-text", TextOrLocal(m), "force-cloud-no-key", score, tags)
    ELSE IF reason = "force-local" \/ reason = "post-tool-turn"
    THEN pick("local", m.local, reason, score, tags)
    ELSE NoDecision

\* cloud-required capabilities
CloudCapability(pref, cloudAvailable, m, score, tags) ==
    LET needsCloud == SeqHas(tags, CLOUD_REQUIRED_TAGS)
    IN  IF needsCloud /\ cloudAvailable /\ pref # "local-only"
        THEN pick("cloud", m.cloud, "cloud-capability", score, tags)
        ELSE NoDecision

\* faulty variant: the threshold is compared with > instead of >=
ComplexityBased_Strict(pref, threshold, cloudAvailable, m, score, tags) ==
    IF Less(Dbl(threshold), score)
    THEN IF pref = "prefer-local"
         THEN IF Less(score, Dbl(70)) /\ m.localText # NoModel
              THEN pick("local-text", m.localText, "prefer-local+moderate", score, tags)
              ELSE IF cloudAvailable
              THEN pick("cloud", m.cloud, "prefer-local+high", score, tags)
              ELSE pick("local-text", TextOrLocal(m), "prefer-local+high-no-key",
                        score, tags)
         ELSE IF cloudAvailable
         THEN pick("cloud", m.cloud, "complex+cloud", score, tags)
         ELSE pick("local-text", TextOrLocal(m), "complex+no-key", score, tags)
    ELSE NoDecision

\* complexity-based routing
ComplexityBased(pref, threshold, cloudAvailable, m, score, tags) ==
    IF ~Less(score, Dbl(threshold))
    THEN IF pref = "prefer-local"
         THEN IF Less(score, Dbl(70)) /\ m.localText # NoModel
              THEN pick("local-text", m.localText, "prefer-local+moderate", score, tags)
              ELSE IF cloudAvailable
              THEN pick("cloud", m.cloud, "prefer-local+high", score, tags)
              ELSE pick("local-text", TextOrLocal(m), "prefer-local+high-no-key",
                        score, tags)
         ELSE IF cloudAvailable
         THEN pick("cloud", m.cloud, "complex+cloud", score, tags)
         ELSE pick("local-text", TextOrLocal(m), "complex+no-key", score, tags)
    ELSE NoDecision

\* faulty variant: a simple text goes to the cloud whenever it is available
SimpleTask_CloudWhenAvailable(pref, cloudAvailable, m, score, tags) ==
    LET isToolLike == SeqHas(tags, TOOL_LIKE_TAGS)
    IN  IF isToolLike
        THEN pick("local", m.local, "tool-prefer-local", score, tags)
        ELSE IF cloudAvailable
        THEN pick("cloud", m.cloud, "simple+prefer-cloud", score, tags)
        ELSE IF m.localText # NoModel
        THEN pick("local-text", m.localText, "simple+text", score, tags)
        ELSE pick("local", m.local, "simple+local", score, tags)

\* simple task: local (tool-calling) or local-text
SimpleTask(pref, cloudAvailable, m, score, tags) ==
    LET isToolLike == SeqHas(tags, TOOL_LIKE_TAGS)
    IN  IF isToolLike
        THEN pick("local", m.local, "tool-prefer-local", score, tags)
        ELSE IF pref = "prefer-cloud" /\ cloudAvailable
        THEN pick("cloud", m.cloud, "simple+prefer-cloud", score, tags)
        ELSE IF m.localText # NoModel
        THEN pick("local-text", m.localText, "simple+text", score, tags)
        ELSE pick("local", m.local, "simple+local", score, tags)

\* the rules in the order of the source: the first that applies decides
RouteBy(cl, pref, threshold, cloudAvailable, m) ==
    IF AbsolutePreference(pref, cloudAvailable, m, cl.score, cl.tags) # NoDecision
    THEN AbsolutePreference(pref, cloudAvailable, m, cl.score, cl.tags)
    ELSE IF ForceDecided(cl.reason, cloudAvailable, m, cl.score, cl.tags) # NoDecision
    THEN ForceDecided(cl.reason, cloudAvailable, m, cl.score, cl.tags)
    ELSE IF CloudCapability(pref, cloudAvailable, m, cl.score, cl.tags) # NoDecision
    THEN CloudCapability(pref, cloudAvailable, m, cl.score, cl.tags)
    ELSE IF ComplexityBased(pref, threshold, cloudAvailable, m, cl.score, cl.tags)
            # NoDecision
    THEN ComplexityBased(pref, threshold, cloudAvailable, m, cl.score, cl.tags)
    ELSE SimpleTask(pref, cloudAvailable, m, cl.score, cl.tags)

\* faulty variant: fallback.onCloudUnavailable = "local" is honoured when the
\* cloud is not available
makeRoutingDecision_HonoursFallback(ctx, rcfg, m, c, h) ==
    LET d == RouteBy(classifyComplexity(ctx, rcfg.routing), rcfg.preference,
                     rcfg.routing.complexityThreshold, CloudAvailable(rcfg, m, c, h), m)
    IN  IF /\ ~CloudAvailable(rcfg, m, c, h)
           /\ rcfg.fallback.onCloudUnavailable = "local"
           /\ d.target = "local-text"
        THEN [d EXCEPT !.target = "local", !.model = m.local]
        ELSE d

makeRoutingDecision(ctx, rcfg, m, c, h) ==
    RouteBy(classifyComplexity(ctx, rcfg.routing), rcfg.preference,
            rcfg.routing.complexityThreshold, CloudAvailable(rcfg, m, c, h), m)

----------------------------------------------------------------------------
(* Stream-fn wrapper: construction *)

\* what createHybridRouterWrapper resolves before it installs the wrapper
ResolvedModels(rcfg, h) ==
    [local |-> resolveModelRef(rcfg.localModel, h),
     localText |-> resolveModelRef(rcfg.localTextModel, h),
     cloud |-> resolveModelRef(rcfg.cloudModel, h)]

\* faulty variant: the wrapper is installed without a resolved local model
Installs_IgnoresLocal(rcfg, m) == rcfg.enabled

\* createHybridRouterWrapper returns null when the router is disabled or the
\* local model cannot be resolved
Installs(rcfg, m) == rcfg.enabled /\ m.local # NoModel

----------------------------------------------------------------------------
(* Local system prompts and the identity preamble *)

BASE_TOOL_PROMPT == "You MUST use tools for every request. ... Be concise."
BASE_TEXT_PROMPT == "Answer clearly and concisely."

\* a system prompt: the sentences of a preamble followed by a base prompt
Prompt(preamble, base) == preamble \o <<<<base>>>>

\* the module-level prompts before any wrapper is created
FallbackPrompts ==
    [tool |-> Prompt(<<<<"You are a helpful coding assistant with access to tools.">>>>,
                     BASE_TOOL_PROMPT),
     text |-> Prompt(<<<<"You are a helpful assistant.">>>>, BASE_TEXT_PROMPT)]

\* the bold directives of SOUL.md that are kept: shorter than 80, the first four
KeptDirectives(soul) ==
    LET short == SelectSeq(soul, LAMBDA d : ~d.long)
    IN  [i \in 1..(IF Len(short) < 4 THEN Len(short) ELSE 4) |-> short[i].text]

\* buildIdentityPreamble(workspaceDir): the workspace is what its IDENTITY.md,
\* SOUL.md and USER.md hold, each field absent when the file or the line is
buildIdentityPreamble(workspaceDir) ==
    IF workspaceDir = Absent THEN <<<<"You are a helpful assistant.">>>>
    ELSE LET ws == workspaceDir[1]
             who == IF ws.name # Absent /\ ws.fullName # Absent
                    THEN <<"You are", ws.name[1], ws.fullName[1], "a helpful AI assistant.">>
                    ELSE IF ws.name # Absent
                    THEN <<"You are", ws.name[1], "a helpful AI assistant.">>
                    ELSE <<"You are a helpful AI assistant.">>
             userName == IF ws.callThem # Absent THEN ws.callThem
                         ELSE ws.userName
         IN  <<who>>
             \o (IF userName # Absent THEN <<<<"You are assisting", userName[1]>>>> ELSE <<>>)
             \o (IF ws.vibe # Absent THEN <<<<"Your vibe:", ws.vibe[1]>>>> ELSE <<>>)
             \o (IF KeptDirectives(ws.soul) # <<>> THEN <<KeptDirectives(ws.soul)>> ELSE <<>>)
             \o <<<<"Never say you are Gemma, LLaMA, or any other model. You are only",
                    OrElse(ws.name, "this assistant")>>>>

\* the prompts createHybridRouterWrapper assigns to the module-level variables
BuiltPrompts(workspaceDir) ==
    [tool |-> Prompt(buildIdentityPreamble(workspaceDir), BASE_TOOL_PROMPT),
     text |-> Prompt(buildIdentityPreamble(workspaceDir), BASE_TEXT_PROMPT)]

----------------------------------------------------------------------------
(* Tool simplification and context adaptation *)

SIMPLIFIED_TOOL_SCHEMAS ==
    [n \in {"read", "exec", "write", "edit"} |->
        CASE n = "read" ->
               [name |-> "read", description |-> "Read a file.",
                parameters |-> [properties |-> <<"path">>, required |-> <<"path">>]]
          [] n = "exec" ->
               [name |-> "exec",
                description |-> "Run a shell command (ls, cat, git, date, echo, etc.).",
                parameters |-> [properties |-> <<"command">>, required |-> <<"command">>]]
          [] n = "write" ->
               [name |-> "write", description |-> "Write content to a file.",
                parameters |-> [properties |-> <<"path", "content">>,
                                required |-> <<"path", "content">>]]
          [] n = "edit" ->
               [name |-> "edit", description |-> "Edit a file by replacing text.",
                parameters |-> [properties |-> <<"path", "oldText", "newText">>,
                                required |-> <<"path", "oldText", "newText">>]]]

\* properties every object literal inherits: SIMPLIFIED_TOOL_SCHEMAS[name] is
\* truthy for these names too, and has no description and no parameters
ObjectPrototypeNames == {"constructor", "toString", "valueOf", "hasOwnProperty"}

\* SIMPLIFIED_TOOL_SCHEMAS[name], Absent when the lookup is undefined
SchemaOf(name) ==
    IF name \in DOMAIN SIMPLIFIED_TOOL_SCHEMAS
    THEN Set([description |-> Set(SIMPLIFIED_TOOL_SCHEMAS[name].description),
              parameters |-> Set(SIMPLIFIED_TOOL_SCHEMAS[name].parameters)])
    ELSE IF name \in ObjectPrototypeNames
    THEN Set([description |-> Absent, parameters |-> Absent])
    ELSE Absent

\* tool?.name ?? tool?.function?.name ?? "" (tool.function holds function.name)
ToolName(tool) == OrElse(tool.name, OrElse(tool.function, ""))

\* faulty variant: inputSchema keeps the parameters the tool came with
Simplified_OldInputSchema(tool) ==
    [tool EXCEPT !.description = SchemaOf(ToolName(tool))[1].description,
                 !.parameters = SchemaOf(ToolName(tool))[1].parameters,
                 !.inputSchema = tool.parameters]

\* { ...tool, description, parameters, inputSchema } with the simplified schema
Simplified(tool) ==
    [tool EXCEPT !.description = SchemaOf(ToolName(tool))[1].description,
                 !.parameters = SchemaOf(ToolName(tool))[1].parameters,
                 !.inputSchema = SchemaOf(ToolName(tool))[1].parameters]

\* the loop of simplifyToolsForLocalModel from tool i on, with the names seen
RECURSIVE SimplifyFrom(_, _, _)
SimplifyFrom(tools, i, seen) ==
    IF i > Len(tools) THEN <<>>
    ELSE IF SchemaOf(ToolName(tools[i])) # Absent /\ ToolName(tools[i]) \notin seen
    THEN <<Simplified(tools[i])>>
         \o SimplifyFrom(tools, i + 1, seen \cup {ToolName(tools[i])})
    ELSE SimplifyFrom(tools, i + 1, seen)

simplifyToolsForLocalModel(tools) == SimplifyFrom(tools, 1, {})

\* the context handed downstream for a target, with the module-level prompts
\* as they are when the call adapts it
AdaptContext(ctx, target, p) ==
    IF target = "local-text"
    THEN [ctx EXCEPT !.tools = Set(<<>>), !.systemPrompt = Set(p.text)]
    ELSE IF target = "local"
    THEN [ctx EXCEPT !.tools = Set(simplifyToolsForLocalModel(OrElse(ctx.tools, <<>>))),
                     !.systemPrompt = Set(p.tool)]
    ELSE ctx

----------------------------------------------------------------------------
(* Stream-fn wrapper: the wrapped call *)

\* no key: Map.get of a missing provider, or a result without an apiKey
NoKey == ""

\* the providers of the models in use
Providers == {"ollama", "anthropic"}

\* a resolver that finds no key for any provider
NoResolver == [p \in Providers |-> [kind |-> "none", apiKey |-> NoKey]]

\* const effectiveModel = decision.model ?? model
EffectiveModel(d, model) == IF d.model # NoModel THEN d.model ELSE model

\* faulty variant: the models are compared, not their providers
SwitchesProvider_ByModel(effModel, model) == effModel # model

\* effectiveModel.provider !== model.provider
SwitchesProvider(effModel, model) == effModel.provider # model.provider

\* the key the resolution leaves in the local variable apiKey
KeyAfter(outcome) == IF outcome.kind = "key" THEN outcome.apiKey ELSE NoKey

\* faulty variant: one slot for the resolved key, whatever the provider
Stored_OneSlot(cache, provider, outcome) ==
    IF KeyAfter(outcome) # NoKey
    THEN [p \in DOMAIN cache |-> KeyAfter(outcome)]
    ELSE cache

\* resolvedProviderKeys after a resolution: set only for a result with an apiKey
Stored(cache, provider, outcome) ==
    IF KeyAfter(outcome) # NoKey
    THEN [cache EXCEPT ![provider] = KeyAfter(outcome)]
    ELSE cache

\* faulty variant: { apiKey, ...options }, the caller's own key wins
WithKey_KeepsCallerKey(options, apiKey) ==
    IF apiKey # NoKey /\ options.apiKey = Absent
    THEN [options EXCEPT !.apiKey = Set(apiKey)] ELSE options

\* if (apiKey) effectiveOptions = { ...options, apiKey }
WithKey(options, apiKey) ==
    IF apiKey # NoKey THEN [options EXCEPT !.apiKey = Set(apiKey)] ELSE options

\* faulty variant: a provider switch without a key ends the call
Delegated_FatalWithoutKey(call, apiKey, p) ==
    IF SwitchesProvider(call.effModel, call.model) /\ apiKey = NoKey
    THEN [call EXCEPT !.pc = "threw", !.apiKey = apiKey, !.result = "throws"]
    ELSE [call EXCEPT !.pc = "streaming",
                      !.apiKey = apiKey,
                      !.effOptions = WithKey(call.options, apiKey),
                      !.effContext = AdaptContext(call.context, call.decision.target, p),
                      !.streamed = @ + 1]

\* the rest of the call once the credential step is over: the options and the
\* context are made and streamFn is invoked with them
Delegated(call, apiKey, p) ==
    [call EXCEPT !.pc = "streaming",
                 !.apiKey = apiKey,
                 !.effOptions = WithKey(call.options, apiKey),
                 !.effContext = AdaptContext(call.context, call.decision.target, p),
                 !.streamed = @ + 1]

\* faulty variant: a downstream failure is retried once
AfterDownstream_Retries(call, out) ==
    IF out = "throws" /\ call.streamed < 2
    THEN [call EXCEPT !.pc = "streaming", !.downstream = out, !.streamed = @ + 1]
    ELSE [call EXCEPT !.pc = IF out = "throws" THEN "threw" ELSE "returned",
                      !.downstream = out,
                      !.result = out]

\* return streamFn(...): what the downstream call yields is what the call yields
AfterDownstream(call, out) ==
    [call EXCEPT !.pc = IF out = "throws" THEN "threw" ELSE "returned",
                 !.downstream = out,
                 !.result = out]

----------------------------------------------------------------------------
(* The objects of a wrapped call *)

\* Objects are held by kind, each kind a sequence indexed by address: context
\* objects refer to their messages array and their tools array by address
\* (0: context.tools is undefined), tools arrays hold the addresses of tool
\* objects. `made` is the address an operation has just produced.
NoHeap ==
    [phase |-> "none", ctxs |-> <<>>, lists |-> <<>>, tools |-> <<>>, opts |-> <<>>,
     made |-> 0]

\* the tool objects of the array at an address, as values
DerefTools(h, a) ==
    IF a = 0 THEN Absent ELSE Set([i \in 1..Len(h.lists[a]) |-> h.tools[h.lists[a][i]]])

\* the context object at address c, as a value
Deref(h, c) ==
    [messages |-> h.lists[h.ctxs[c].messages],
     tools |-> DerefTools(h, h.ctxs[c].tools),
     systemPrompt |-> h.ctxs[c].systemPrompt]

\* the loop of simplifyToolsForLocalModel over the tool objects at addrs: each
\* kept tool is a new object { ...tool, description, parameters, inputSchema }
RECURSIVE SimplifyIn(_, _, _, _)
SimplifyIn(store, addrs, i, seen) ==
    IF i > Len(addrs) THEN [tools |-> store, out |-> <<>>]
    ELSE LET tool == store[addrs[i]]
         IN  IF SchemaOf(ToolName(tool)) # Absent /\ ToolName(tool) \notin seen
             THEN LET rest == SimplifyIn(Append(store, Simplified(tool)), addrs, i + 1,
                                         seen \cup {ToolName(tool)})
                  IN  [tools |-> rest.tools, out |-> <<Len(store) + 1>> \o rest.out]
             ELSE SimplifyIn(store, addrs, i + 1, seen)

\* faulty variant: the caller's context object is adapted in place
AdaptIn_InPlace(h, c, target, p) ==
    IF target = "local-text"
    THEN [h EXCEPT !.lists = Append(@, <<>>),
                   !.ctxs[c].tools = Len(h.lists) + 1,
                   !.ctxs[c].systemPrompt = Set(p.text),
                   !.made = c]
    ELSE IF target = "local"
    THEN LET from == IF h.ctxs[c].tools = 0 THEN <<>> ELSE h.lists[h.ctxs[c].tools]
             s == SimplifyIn(h.tools, from, 1, {})
         IN  [h EXCEPT !.tools = s.tools,
                       !.lists = Append(@, s.out),
                       !.ctxs[c].tools = Len(h.lists) + 1,
                       !.ctxs[c].systemPrompt = Set(p.tool),
                       !.made = c]
    ELSE [h EXCEPT !.made = c]

\* faulty variant: the cloud target gets a copy with the local tool prompt
AdaptIn_PromptForCloud(h, c, target, p) ==
    IF target = "local-text"
    THEN [h EXCEPT !.lists = Append(@, <<>>),
                   !.ctxs = Append(@, [h.ctxs[c] EXCEPT !.tools = Len(h.lists) + 1,
                                                        !.systemPrompt = Set(p.text)]),
                   !.made = Len(h.ctxs) + 1]
    ELSE IF target = "local"
    THEN LET from == IF h.ctxs[c].tools = 0 THEN <<>> ELSE h.lists[h.ctxs[c].tools]
             s == SimplifyIn(h.tools, from, 1, {})
         IN  [h EXCEPT !.tools = s.tools,
                       !.lists = Append(@, s.out),
                       !.ctxs = Append(@, [h.ctxs[c] EXCEPT !.tools = Len(h.lists) + 1,
                                                            !.systemPrompt = Set(p.tool)]),
                       !.made = Len(h.ctxs) + 1]
    ELSE [h EXCEPT !.ctxs = Append(@, [h.ctxs[c] EXCEPT !.systemPrompt = Set(p.tool)]),
                   !.made = Len(h.ctxs) + 1]

\* the adaptation of the context object at c: effectiveContext is c itself, or a
\* new object { ...context, tools, systemPrompt } with a new tools array
AdaptIn(h, c, target, p) ==
    IF target = "local-text"
    THEN [h EXCEPT !.lists = Append(@, <<>>),
                   !.ctxs = Append(@, [h.ctxs[c] EXCEPT !.tools = Len(h.lists) + 1,
                                                        !.systemPrompt = Set(p.text)]),
                   !.made = Len(h.ctxs) + 1]
    ELSE IF target = "local"
    THEN LET from == IF h.ctxs[c].tools = 0 THEN <<>> ELSE h.lists[h.ctxs[c].tools]
             s == SimplifyIn(h.tools, from, 1, {})
         IN  [h EXCEPT !.tools = s.tools,
                       !.lists = Append(@, s.out),
                       !.ctxs = Append(@, [h.ctxs[c] EXCEPT !.tools = Len(h.lists) + 1,
                                                            !.systemPrompt = Set(p.tool)]),
                       !.made = Len(h.ctxs) + 1]
    ELSE [h EXCEPT !.made = c]

\* effectiveOptions: the options object at o itself, or a new { ...options, apiKey }
WithKeyIn(h, o, apiKey) ==
    IF apiKey # NoKey
    THEN [h EXCEPT !.opts = Append(@, WithKey(h.opts[o], apiKey)), !.made = Len(h.opts) + 1]
    ELSE [h EXCEPT !.made = o]

----------------------------------------------------------------------------
(* Inputs *)

FunctionGemma == [provider |-> "ollama", id |-> "functiongemma"]
Gemma3 == [provider |-> "ollama", id |-> "gemma3:270m"]
Claude == [provider |-> "anthropic", id |-> "claude-sonnet-4-5"]
Gpt == [provider |-> "openai", id |-> "gpt-4"]

NoCreds == [profiles |-> {}, authFile |-> FALSE, agentProfiles |-> {}, env |-> {}]

\* the cloud model of the config with the credentials the host holds for it
CloudSetups == {
    \* no cloud model configured
    [cloudModel |-> Absent, resolves |-> FALSE, creds |-> NoCreds],
    \* resolved, API key in the config's auth profiles
    [cloudModel |-> Set(Claude), resolves |-> TRUE,
     creds |-> [NoCreds EXCEPT !.profiles =
                  {[key |-> <<"anthropic", ":default">>, apiKey |-> TRUE,
                    mode |-> "api_key"]}]],
    \* key in the environment, but the model does not resolve
    [cloudModel |-> Set(Claude), resolves |-> FALSE,
     creds |-> [NoCreds EXCEPT !.env = {"ANTHROPIC_API_KEY"}]],
    \* resolved, only credentials that do not count for the provider
    [cloudModel |-> Set(Gpt), resolves |-> TRUE,
     creds |-> [NoCreds EXCEPT !.env = {"ANTHROPIC_OAUTH_TOKEN"}, !.profiles =
                  {[key |-> <<"openai", ":default">>, apiKey |-> FALSE,
                    mode |-> "oauth"]},
                !.authFile = TRUE, !.agentProfiles =
                  {[key |-> <<"anthropic", ":oauth">>, token |-> FALSE,
                    apiKey |-> FALSE, type |-> "oauth"]}]] }

\* routing.forceCloudPatterns / routing.forceLocalPatterns of the config file
PatternSetups == {
    [cloud |-> <<>>, local |-> <<>>],
    [cloud |-> <<"(", "explain.*in detail", "find">>,
     local |-> <<"read.*file", "^(yes|no|ok|sure)$", "list">>] }

Preferences == {Absent, Set("prefer-cloud"), Set("local-only"), Set("cloud-only")}

Thresholds == {Absent, Set(30)}

RouterBlocks ==
    { [enabled |-> en,
       preference |-> pref,
       localModel |-> Absent,
       localTextModel |-> lt,
       cloudModel |-> cs.cloudModel,
       routing |-> [complexityThreshold |-> th,
                    toolCallsPreferLocal |-> Absent,
                    maxLocalResponseTokens |-> Absent,
                    forceCloudPatterns |-> ps.cloud,
                    forceLocalPatterns |-> ps.local],
       fallback |-> [onCloudUnavailable |-> Absent, onLocalError |-> Absent],
       setup |-> cs] :
      en \in BOOLEAN, pref \in Preferences, lt \in {Absent, Set(Gemma3)},
      th \in Thresholds, ps \in PatternSetups, cs \in CloudSetups }

TokSeqs == UNION {[1..n -> Vocab] : n \in 0..MaxToks}

Texts == {[toks |-> ts, pad |-> p] : ts \in TokSeqs, p \in Pads}

AssistantProviders == {"ollama", "anthropic"}

\* Lookback tool results: they push an earlier message out of the window
Padding == [i \in 1..Lookback |-> ToolResultMsg]

\* texts without filler words
ShortTexts == {t \in Texts : t.pad = 0}

\* a conversation that continues earlier turns: a pending tool result after
\* an assistant turn, or a user turn after an assistant turn full of tool calls
Continued(t) ==
    {<<UserMsg(t), AssistantMsg(p, 1), ToolResultMsg>> : p \in AssistantProviders}
    \cup {<<AssistantMsg("ollama", MaxToolCalls), UserMsg(t)>>}

\* the tool calls of the first message have left the window of recent messages
OldToolCalls(t) == <<AssistantMsg("ollama", MaxToolCalls)>> \o Padding \o <<UserMsg(t)>>

Contexts ==
    {[messages |-> ms] : ms \in {<<>>, <<ToolResultMsg>>}}
    \cup {[messages |-> <<UserMsg(t)>>] : t \in Texts}
    \cup {[messages |-> ms] : ms \in UNION {Continued(t) : t \in ShortTexts}}
    \cup {[messages |-> OldToolCalls([toks |-> <<w>>, pad |-> 0])] : w \in Vocab}

----------------------------------------------------------------------------
(* The state machine *)

Init ==
    /\ \E rb \in RouterBlocks : \E localResolves \in BOOLEAN :
          /\ cfg = [hybridRouter |-> [f \in DOMAIN rb \ {"setup"} |-> rb[f]],
                    auth |-> [profiles |-> rb.setup.creds.profiles],
                    workspace |-> Absent]
          /\ host = [authFile |-> rb.setup.creds.authFile,
                     agentProfiles |-> rb.setup.creds.agentProfiles,
                     env |-> rb.setup.creds.env,
                     resolvable |->
                        (IF localResolves THEN {FunctionGemma, Gemma3} ELSE {})
                        \cup (IF rb.setup.resolves THEN {Claude, Gpt} ELSE {})]
    /\ wrapper = "none"
    /\ routerCfg = NoRouterCfg
    /\ models = NoModels
    /\ context = NoContext
    /\ decision = NoDecision
    /\ prompts = FallbackPrompts
    /\ resolves = NoResolver
    /\ wrappers = <<>>
    /\ calls = <<>>
    /\ heap = NoHeap
    /\ probe = NoProbe
    /\ launcher = NoLauncher

\* createHybridRouterWrapper(params)
Construct ==
    /\ wrapper = "none"
    /\ LET rcfg == resolveHybridRouterConfig(cfg)
       IN  IF ~rcfg.enabled
           THEN /\ wrapper' = "null"
                /\ UNCHANGED <<routerCfg, models, prompts>>
           ELSE LET m == ResolvedModels(rcfg, host)
                IN  /\ prompts' = BuiltPrompts(cfg.workspace)
                    /\ routerCfg' = rcfg
                    /\ models' = m
                    /\ wrapper' = IF Installs(rcfg, m) THEN "installed" ELSE "null"
    /\ UNCHANGED <<cfg, host, context, decision, resolves, wrappers, calls, heap, probe, launcher>>

\* the routing step of a wrapped call: makeRoutingDecision on the call's context
Route ==
    /\ wrapper = "installed"
    /\ decision = NoDecision
    /\ \E ctx \in Contexts :
          /\ context' = ctx
          /\ decision' = makeRoutingDecision(ctx, routerCfg, models, cfg, host)
    /\ UNCHANGED <<cfg, host, wrapper, routerCfg, models,
                   prompts, resolves, wrappers, calls, heap, probe, launcher>>

Next ==
    \/ Construct
    \/ Route

Spec == Init /\ [][Next]_vars

----------------------------------------------------------------------------
(* Wrapped calls: several wrappers in one process, calls that overlap *)

\* what the resolver yields: a key, no key, or an exception
Outcomes(p) ==
    {[kind |-> "key", apiKey |-> IF p = "ollama" THEN "key-ollama" ELSE "key-anthropic"],
     [kind |-> "none", apiKey |-> NoKey],
     [kind |-> "throws", apiKey |-> NoKey]}

\* the resolver is idempotent within a session: one outcome for each provider.
\* Keys for both; no key for the local provider (it needs none); a failure for
\* the cloud provider
ResolverSetups ==
    {r \in [Providers -> UNION {Outcomes(p) : p \in Providers}] :
        /\ \A p \in Providers : r[p] \in Outcomes(p)
        /\ <<r["ollama"].kind, r["anthropic"].kind>>
              \in {<<"key", "key">>, <<"none", "key">>, <<"key", "throws">>}}

\* workspaces by what their identity files hold
Workspace1 ==
    [name |-> Set("Ada"), fullName |-> Absent, vibe |-> Absent,
     callThem |-> Absent, userName |-> Set("Lin"), soul |-> <<>>]
Workspace2 ==
    [name |-> Set("Bo"), fullName |-> Set("Bo Bot"), vibe |-> Set("calm"),
     callThem |-> Set("Sam"), userName |-> Set("Samuel"),
     soul |-> <<[text |-> "Be genuine", long |-> FALSE],
                [text |-> "A directive of eighty characters or more", long |-> TRUE],
                [text |-> "Be concise", long |-> FALSE]>>]

\* the router block of the calls' configurations
CallBlock(en, local) ==
    [enabled |-> en, preference |-> Absent, localModel |-> local,
     localTextModel |-> Set(Gemma3), cloudModel |-> Set(Claude),
     routing |-> [complexityThreshold |-> Absent, toolCallsPreferLocal |-> Absent,
                  maxLocalResponseTokens |-> Absent,
                  forceCloudPatterns |-> <<>>, forceLocalPatterns |-> <<>>],
     fallback |-> [onCloudUnavailable |-> Absent, onLocalError |-> Absent]]

CallCfg(block, ws) ==
    [hybridRouter |-> block,
     auth |-> [profiles |-> {[key |-> <<"anthropic", ":default">>, apiKey |-> TRUE,
                              mode |-> "api_key"]}],
     workspace |-> ws]

\* params of createHybridRouterWrapper: an installable router over two
\* workspaces, a local model that does not resolve (and no workspace), a
\* disabled router
WrapperParams ==
    {CallCfg(CallBlock(TRUE, Absent), ws) : ws \in {Set(Workspace1), Set(Workspace2)}}
    \cup {CallCfg(CallBlock(TRUE, Set(Gpt)), Absent),
          CallCfg(CallBlock(FALSE, Absent), Set(Workspace2))}

CallHost ==
    [authFile |-> FALSE, agentProfiles |-> {}, env |-> {},
     resolvable |-> {FunctionGemma, Gemma3, Claude}]

\* a tool of the host: its name at the top or under function, a long
\* description, a schema of many parameters, and the implementation
HostTool(name, fn, impl) ==
    [name |-> name, function |-> fn, description |-> Set("full description"),
     parameters |-> Set([properties |-> <<"many">>, required |-> <<>>]),
     inputSchema |-> Absent, execute |-> impl]

HostTools ==
    <<HostTool(Set("read"), Absent, "read-1"), HostTool(Set("browser"), Absent, "browser"),
      HostTool(Absent, Set("exec"), "exec"), HostTool(Set("read"), Absent, "read-2")>>

\* greeting, file read, web search: local-text, local and cloud under prefer-local
CallTexts ==
    {[toks |-> <<"hello">>, pad |-> 0], [toks |-> <<"read", "file">>, pad |-> 0],
     [toks |-> <<"find">>, pad |-> 0]}

CallContexts ==
    {[messages |-> <<UserMsg(t)>>, tools |-> Set(HostTools),
      systemPrompt |-> Set(<<<<"the host's full system prompt">>>>)] : t \in CallTexts}

\* the model the agent would have called
CallerModels == {FunctionGemma, Claude}

CallOptions == {[apiKey |-> k, maxTokens |-> 256] : k \in {Absent, Set("key-caller")}}

NoWrapper ==
    [state |-> "none", cfg |-> CallCfg(CallBlock(FALSE, Absent), Absent),
     routerCfg |-> NoRouterCfg, models |-> NoModels,
     cache |-> [p \in Providers |-> NoKey],
     runtimeKeys |-> [p \in Providers |-> NoKey],
     resolutions |-> [p \in Providers |-> 0]]

IdleCall ==
    [pc |-> "idle", w |-> 0, model |-> NoModel, context |-> NoContext,
     options |-> [apiKey |-> Absent, maxTokens |-> 0], decision |-> NoDecision,
     effModel |-> NoModel, cached |-> NoKey, apiKey |-> NoKey,
     effOptions |-> [apiKey |-> Absent, maxTokens |-> 0], effContext |-> NoContext,
     streamed |-> 0, downstream |-> "none", result |-> "none"]

InitCalls ==
    /\ cfg = CallCfg(CallBlock(FALSE, Absent), Absent)
    /\ host = CallHost
    /\ wrapper = "none"
    /\ routerCfg = NoRouterCfg
    /\ models = NoModels
    /\ context = NoContext
    /\ decision = NoDecision
    /\ prompts = FallbackPrompts
    /\ resolves \in ResolverSetups
    /\ wrappers = [w \in 1..MaxWrappers |-> NoWrapper]
    /\ calls = [c \in 1..MaxCalls |-> IdleCall]
    /\ heap = NoHeap
    /\ probe = NoProbe
    /\ launcher = NoLauncher

\* createHybridRouterWrapper(params), for the next wrapper of the process
Create ==
    \E w \in 1..MaxWrappers :
      /\ wrappers[w].state = "none"
      /\ IF w = 1 THEN TRUE ELSE wrappers[w - 1].state # "none"
      /\ \E params \in WrapperParams :
           LET rcfg == resolveHybridRouterConfig(params)
           IN  IF ~rcfg.enabled
               THEN /\ wrappers' = [wrappers EXCEPT ![w].state = "null", ![w].cfg = params]
                    /\ UNCHANGED prompts
               ELSE LET m == ResolvedModels(rcfg, host)
                    IN  /\ prompts' = BuiltPrompts(params.workspace)
                        /\ wrappers' = [wrappers EXCEPT
                              ![w].state = IF Installs(rcfg, m) THEN "installed" ELSE "null",
                              ![w].cfg = params,
                              ![w].routerCfg = rcfg,
                              ![w].models = m]
      /\ UNCHANGED <<cfg, host, wrapper, routerCfg, models, context, decision,
                     resolves, calls, heap, probe, launcher>>

\* wrapped(model, context, options) up to its first suspension: the decision,
\* the cache lookup, and either the start of a resolution or, when no key has
\* to be resolved, the rest of the call
Invoke ==
    \E c \in 1..MaxCalls :
      /\ calls[c].pc = "idle"
      /\ IF c = 1 THEN TRUE ELSE calls[c - 1].pc # "idle"
      /\ \E w \in 1..MaxWrappers :
           /\ wrappers[w].state = "installed"
           /\ \E model \in CallerModels, ctx \in CallContexts, options \in CallOptions :
                LET d == makeRoutingDecision(ctx, wrappers[w].routerCfg, wrappers[w].models,
                                             wrappers[w].cfg, host)
                    eff == EffectiveModel(d, model)
                    cached == IF SwitchesProvider(eff, model)
                              THEN wrappers[w].cache[eff.provider] ELSE NoKey
                    started == [IdleCall EXCEPT !.w = w, !.model = model, !.context = ctx,
                                                !.options = options, !.decision = d,
                                                !.effModel = eff, !.cached = cached]
                IN  IF SwitchesProvider(eff, model) /\ cached = NoKey
                    THEN /\ calls' = [calls EXCEPT ![c] = [started EXCEPT !.pc = "resolving"]]
                         /\ wrappers' = [wrappers EXCEPT
                                           ![w].resolutions[eff.provider] = @ + 1]
                    ELSE /\ calls' = [calls EXCEPT ![c] = Delegated(started, cached, prompts)]
                         /\ UNCHANGED wrappers
      /\ UNCHANGED <<cfg, host, wrapper, routerCfg, models, context, decision,
                     prompts, resolves, heap, probe, launcher>>

\* the resolution a call awaits settles: the key, if any, is stored in the cache
\* and in authStorage, and the call runs on to streamFn
Resolved ==
    \E c \in 1..MaxCalls :
      /\ calls[c].pc = "resolving"
      /\ LET w == calls[c].w
             provider == calls[c].effModel.provider
             outcome == resolves[provider]
         IN  /\ wrappers' = [wrappers EXCEPT
                   ![w].cache = Stored(@, provider, outcome),
                   ![w].runtimeKeys = Stored(@, provider, outcome)]
             /\ calls' = [calls EXCEPT ![c] = Delegated(@, KeyAfter(outcome), prompts)]
      /\ UNCHANGED <<cfg, host, wrapper, routerCfg, models, context, decision,
                     prompts, resolves, heap, probe, launcher>>

\* the downstream streamFn returns its stream or throws
Downstream ==
    \E c \in 1..MaxCalls :
      /\ calls[c].pc = "streaming"
      /\ \E out \in {"stream", "throws"} :
           calls' = [calls EXCEPT ![c] = AfterDownstream(@, out)]
      /\ UNCHANGED <<cfg, host, wrapper, routerCfg, models, context, decision,
                     prompts, resolves, wrappers, heap, probe, launcher>>

NextCalls ==
    \/ Create
    \/ Invoke
    \/ Resolved
    \/ Downstream

SpecCalls == InitCalls /\ [][NextCalls]_vars

----------------------------------------------------------------------------
(* One wrapped call, its objects, and what is done to them afterwards *)

\* tools by name: kept, kept and named under function, not kept, named like a
\* property every object inherits, a second tool named read
ToolShapes ==
    {HostTool(Set("read"), Absent, "read-1"), HostTool(Absent, Set("exec"), "exec"),
     HostTool(Set("browser"), Absent, "browser"),
     HostTool(Set("constructor"), Absent, "constructor"),
     HostTool(Absent, Set("read"), "read-2")}

\* context.tools: undefined, or an array of up to MaxTools tools
ToolLists == {Absent} \cup {Set(ts) : ts \in UNION {[1..n -> ToolShapes] : n \in 0..MaxTools}}

\* the wrapper of the call: prefer-local, all three models, workspace 1
AdaptCfg == CallCfg(CallBlock(TRUE, Absent), Set(Workspace1))

\* the caller's objects: the context object, its messages array, its tools
\* array and tool objects if it has tools, and the options object
CallerObjects(ts, text, options) ==
    [ctxs |-> <<[messages |-> 1, tools |-> IF ts = Absent THEN 0 ELSE 2,
                 systemPrompt |-> Set(<<<<"the host's full system prompt">>>>)]>>,
     lists |-> <<<<UserMsg(text)>>>>
               \o (IF ts = Absent THEN <<>> ELSE <<[i \in 1..Len(ts[1]) |-> i]>>),
     tools |-> IF ts = Absent THEN <<>> ELSE ts[1],
     opts |-> <<options>>]

\* the state of a call about to be made: `before` keeps the caller's objects as
\* they are when the call is made
HeapOf(model, ts, text, options) ==
    [phase |-> "ready",
     ctxs |-> CallerObjects(ts, text, options).ctxs,
     lists |-> CallerObjects(ts, text, options).lists,
     tools |-> CallerObjects(ts, text, options).tools,
     opts |-> CallerObjects(ts, text, options).opts,
     made |-> 0,
     model |-> model, ctx |-> 1, options |-> 1,
     before |-> CallerObjects(ts, text, options),
     target |-> "none", effCtx |-> 0, effOpts |-> 0,
     changes |-> 0, first |-> NoContext, again |-> NoContext]

InitAdapt ==
    /\ cfg = AdaptCfg
    /\ host = CallHost
    /\ wrapper = "installed"
    /\ routerCfg = resolveHybridRouterConfig(AdaptCfg)
    /\ models = ResolvedModels(resolveHybridRouterConfig(AdaptCfg), CallHost)
    /\ context = NoContext
    /\ decision = NoDecision
    /\ prompts = BuiltPrompts(AdaptCfg.workspace)
    /\ resolves \in ResolverSetups
    /\ wrappers = <<>>
    /\ calls = <<>>
    /\ probe = NoProbe
    /\ launcher = NoLauncher
    /\ heap \in {HeapOf(model, ts, text, options) :
                    model \in CallerModels, ts \in ToolLists, text \in CallTexts,
                    options \in CallOptions}

\* wrapped(model, context, options) up to the call of streamFn; the key is the
\* one the cache or the resolver yields for the provider switched to
Wrap ==
    /\ heap.phase = "ready"
    /\ LET ctx == Deref(heap, heap.ctx)
           d == makeRoutingDecision(ctx, routerCfg, models, cfg, host)
           eff == EffectiveModel(d, heap.model)
           apiKey == IF SwitchesProvider(eff, heap.model)
                     THEN KeyAfter(resolves[eff.provider]) ELSE NoKey
           h1 == WithKeyIn(heap, heap.options, apiKey)
           h2 == AdaptIn(h1, heap.ctx, d.target, prompts)
       IN  /\ context' = ctx
           /\ decision' = d
           /\ heap' = [h2 EXCEPT !.phase = "handed", !.target = d.target,
                                 !.effOpts = h1.made, !.effCtx = h2.made]
    /\ UNCHANGED <<cfg, host, wrapper, routerCfg, models, prompts, resolves,
                   wrappers, calls, probe, launcher>>

\* the same adaptation applied to the context it produced, as by the wrapped
\* function of a second wrapStreamFn around the first
Readapt ==
    /\ heap.phase = "handed"
    /\ heap.changes = 0
    /\ LET h2 == AdaptIn(heap, heap.effCtx, heap.target, prompts)
       IN  heap' = [h2 EXCEPT !.phase = "readapted",
                              !.first = Deref(heap, heap.effCtx),
                              !.again = Deref(h2, h2.made)]
    /\ UNCHANGED <<cfg, host, wrapper, routerCfg, models, context, decision,
                   prompts, resolves, wrappers, calls, probe, launcher>>

\* whoever holds the effective context may change what it refers to
MayChange == heap.phase \in {"handed", "readapted"} /\ heap.changes < MaxChanges

\* effectiveContext.messages.push(message)
PushMessage ==
    /\ MayChange
    /\ heap' = [heap EXCEPT !.lists[heap.ctxs[heap.effCtx].messages]
                                = Append(@, AssistantMsg("ollama", 0)),
                            !.changes = @ + 1]
    /\ UNCHANGED <<cfg, host, wrapper, routerCfg, models, context, decision,
                   prompts, resolves, wrappers, calls, probe, launcher>>

\* effectiveContext.tools.length = 0
ClearTools ==
    /\ MayChange
    /\ heap.ctxs[heap.effCtx].tools # 0
    /\ heap.lists[heap.ctxs[heap.effCtx].tools] # <<>>
    /\ heap' = [heap EXCEPT !.lists[heap.ctxs[heap.effCtx].tools] = <<>>,
                            !.changes = @ + 1]
    /\ UNCHANGED <<cfg, host, wrapper, routerCfg, models, context, decision,
                   prompts, resolves, wrappers, calls, probe, launcher>>

\* effectiveContext.tools[i].description = ...
ChangeTool ==
    /\ MayChange
    /\ heap.ctxs[heap.effCtx].tools # 0
    /\ \E i \in 1..Len(heap.lists[heap.ctxs[heap.effCtx].tools]) :
          LET a == heap.lists[heap.ctxs[heap.effCtx].tools][i]
          IN  /\ heap.tools[a].description # Set("changed")
              /\ heap' = [heap EXCEPT !.tools[a].description = Set("changed"),
                                      !.changes = @ + 1]
    /\ UNCHANGED <<cfg, host, wrapper, routerCfg, models, context, decision,
                   prompts, resolves, wrappers, calls, probe, launcher>>

NextAdapt ==
    \/ Wrap
    \/ Readapt
    \/ PushMessage
    \/ ClearTools
    \/ ChangeTool

SpecAdapt == InitAdapt /\ [][NextAdapt]_vars

----------------------------------------------------------------------------
(* Vocabulary of the properties *)

\* a wrapped call has been routed by an installed wrapper
Routed == wrapper = "installed" /\ decision # NoDecision

LastText == lastUserText(context.messages)

Available == CloudAvailable(routerCfg, models, cfg, host)

\* pattern i of the list matches the text and no earlier pattern does
FirstMatching(patterns, text, i) ==
    /\ patterns[i] # NoRegex
    /\ RegexTest(patterns[i], text)
    /\ \A j \in 1..(i - 1) : patterns[j] = NoRegex \/ ~RegexTest(patterns[j], text)

SomeMatch(patterns, text) == \E i \in 1..Len(patterns) : FirstMatching(patterns, text, i)

ForceCloudMatches == SomeMatch(routerCfg.routing.forceCloudPatterns, LastText)
ForceLocalMatches == SomeMatch(routerCfg.routing.forceLocalPatterns, LastText)

LeaningPreference == routerCfg.preference \in {"prefer-local", "prefer-cloud"}

\* no shortcut rule of the classifier applies to the routed context
HeuristicTurn ==
    ~ForceCloudMatches /\ ~ForceLocalMatches /\ ~isPostToolTurn(context.messages)

RecognisedCloudProviders ==
    {"anthropic", "openai", "google", "openrouter", "xai", "groq", "mistral"}

\* the provider of the most recent assistant message, "none" without one
LastAssistantProvider ==
    LET ms == context.messages
        idx == {i \in 1..Len(ms) : ms[i].role = "assistant"}
    IN  IF idx = {} THEN "none"
        ELSE ms[CHOOSE i \in idx : \A j \in idx : j <= i].provider

----------------------------------------------------------------------------
(* Properties *)

\* C1: under preference local-only every decision has target local and carries
\* the local tool model, whatever the context, the patterns and the cloud.
C1_LocalOnly ==
    (Routed /\ routerCfg.preference = "local-only")
        => (decision.target = "local" /\ decision.model = models.local)

\* C1 witness: local-only decided local although a force-cloud pattern matches
\* and the cloud is available
C1_Witness ==
    /\ Routed
    /\ routerCfg.preference = "local-only"
    /\ ForceCloudMatches
    /\ Available
    /\ decision.target = "local"

\* C2: under preference cloud-only the target is cloud when the cloud is
\* available, and local (never local-text) when it is not.
C2_CloudOnly ==
    (Routed /\ routerCfg.preference = "cloud-only")
        => IF Available
           THEN decision.target = "cloud" /\ decision.model = models.cloud
           ELSE decision.target = "local" /\ decision.model = models.local

\* C2 witness: cloud-only without an available cloud on a force-cloud text,
\* with a text model configured, is still routed to local
C2_Witness ==
    /\ Routed
    /\ routerCfg.preference = "cloud-only"
    /\ ~Available
    /\ ForceCloudMatches
    /\ models.localText # NoModel
    /\ decision.target = "local"

\* C3: cloud session affinity. On a post-tool turn (no force pattern matching,
\* preference prefer-local or prefer-cloud) the target is cloud when the most
\* recent assistant message came from a recognised cloud provider and the cloud
\* is available, and local when it came from a local provider or there is none.
C3_CloudSessionAffinity ==
    (Routed /\ LeaningPreference /\ isPostToolTurn(context.messages)
            /\ ~ForceCloudMatches /\ ~ForceLocalMatches)
        => IF LastAssistantProvider \in RecognisedCloudProviders /\ Available
           THEN decision.target = "cloud"
           ELSE decision.target = "local"

\* C4 as stated: a force-local match without a force-cloud match gives target
\* local under every preference.
C4_ForceLocalAnyPreference ==
    (Routed /\ ForceLocalMatches /\ ~ForceCloudMatches)
        => decision.target = "local"

\* C4 amended: a force-local match without a force-cloud match gives target
\* local, except under cloud-only with the cloud available, where it gives cloud.
C4_ForceLocal ==
    (Routed /\ ForceLocalMatches /\ ~ForceCloudMatches)
        => IF routerCfg.preference = "cloud-only" /\ Available
           THEN decision.target = "cloud"
           ELSE decision.target = "local"

\* C4 witness: prefer-cloud with the cloud available and a text model present,
\* and the force-local match still decides local
C4_Witness ==
    /\ Routed
    /\ ForceLocalMatches /\ ~ForceCloudMatches
    /\ routerCfg.preference = "prefer-cloud"
    /\ Available
    /\ models.localText # NoModel
    /\ decision.target = "local"

\* C5 as stated: a force-cloud match with the cloud available gives target
\* cloud under every preference.
C5_ForceCloudAnyPreference ==
    (Routed /\ ForceCloudMatches /\ Available) => decision.target = "cloud"

\* C5 amended: a force-cloud match with the cloud available gives target cloud
\* under every preference except local-only.
C5_ForceCloud ==
    (Routed /\ ForceCloudMatches /\ Available /\ routerCfg.preference # "local-only")
        => (decision.target = "cloud" /\ decision.model = models.cloud)

\* C5 witness: under prefer-local a text matching a force-cloud and a
\* force-local pattern goes to the cloud
C5_Witness ==
    /\ Routed
    /\ ForceCloudMatches /\ ForceLocalMatches
    /\ Available
    /\ routerCfg.preference = "prefer-local"
    /\ decision.target = "cloud"

\* C6: force patterns come before any scoring and the cloud list before the
\* local list. A text with a force-cloud match is classified force-cloud with
\* score 1.0 and the matching pattern as its only tag, also when a force-local
\* pattern matches too; a text with only a force-local match is classified
\* force-local with score 0 and that pattern as its only tag.
C6_ForceOrder ==
    Routed =>
        LET fcs == routerCfg.routing.forceCloudPatterns
            fls == routerCfg.routing.forceLocalPatterns
        IN  /\ ForceCloudMatches =>
                /\ decision.score = Dbl(100)
                /\ \E i \in 1..Len(fcs) :
                      /\ FirstMatching(fcs, LastText, i)
                      /\ decision.tags = <<fcs[i].source>>
                /\ LeaningPreference =>
                      decision.reason \in {"force-cloud", "force-cloud-no-key"}
            /\ (ForceLocalMatches /\ ~ForceCloudMatches) =>
                /\ decision.score = Dbl(0)
                /\ \E i \in 1..Len(fls) :
                      /\ FirstMatching(fls, LastText, i)
                      /\ decision.tags = <<fls[i].source>>
                /\ LeaningPreference => decision.reason = "force-local"

\* C6 witness: the text matches a pattern of both lists and carries keywords
C6_Witness ==
    /\ Routed
    /\ ForceCloudMatches /\ ForceLocalMatches
    /\ Len(LastText.toks) >= 2
    /\ LeaningPreference
    /\ decision.score = Dbl(100)

\* C7: an installed wrapper has a resolved local model, and every decision it
\* makes carries a model.
C7_ModelNeverNull ==
    /\ wrapper = "installed" => (routerCfg.enabled /\ models.local # NoModel)
    /\ Routed => decision.model # NoModel

\* C7 witness: neither a text model nor a cloud model is resolved and the rule
\* that fired wanted local-text
C7_Witness ==
    /\ Routed
    /\ models.localText = NoModel
    /\ models.cloud = NoModel
    /\ decision.target = "local-text"
    /\ decision.model # NoModel

\* C8: the model of a decision is the resolved model of its target: local the
\* local tool model, local-text the local text model, cloud the cloud model.
C8_ModelOfTarget ==
    Routed =>
        /\ decision.target = "local" => decision.model = models.local
        /\ decision.target = "local-text" =>
              (models.localText # NoModel /\ decision.model = models.localText)
        /\ decision.target = "cloud" => decision.model = models.cloud

\* C9: the score of every decision lies in [0, 1]; the shortcut rules give
\* exactly 1.0 (force-cloud) or 0.0 (force-local, post-tool turn).
C9_ScoreRange ==
    Routed =>
        /\ ~Less(decision.score, Dbl(0))
        /\ ~Less(Dbl(100), decision.score)
        /\ ForceCloudMatches => decision.score = Dbl(100)
        /\ (~ForceCloudMatches /\ (ForceLocalMatches \/ isPostToolTurn(context.messages)))
              => decision.score = Dbl(0)

\* C9 witness: search (0.35), recommendation (0.30), both word-count boosts
\* (0.30), multi-signal (0.15) and detailed-query (0.10) add up to 1.20
C9_Witness ==
    /\ Routed
    /\ HeuristicTurn
    /\ SeqHas(decision.tags, {"search"})
    /\ SeqHas(decision.tags, {"recommendation"})
    /\ SeqHas(decision.tags, {"very-long-prompt"})
    /\ SeqHas(decision.tags, {"multi-signal"})
    /\ SeqHas(decision.tags, {"detailed-query"})
    /\ decision.score = Dbl(100)

\* C10: cloud-capability gate. On a heuristic classification under prefer-local
\* or prefer-cloud, a search, recommendation, real-time or shopping tag with the
\* cloud available gives target cloud with reason cloud-capability, whatever
\* the score and the threshold.
C10_CloudCapabilityGate ==
    (Routed /\ LeaningPreference /\ HeuristicTurn /\ Available
            /\ SeqHas(decision.tags, {"search", "recommendation", "real-time", "shopping"}))
        => /\ decision.target = "cloud"
           /\ decision.reason = "cloud-capability"
           /\ decision.model = models.cloud

\* C10 witness: a shopping text scoring below the threshold goes to the cloud
C10_Witness ==
    /\ Routed
    /\ routerCfg.preference = "prefer-local"
    /\ HeuristicTurn
    /\ Available
    /\ SeqHas(decision.tags, {"shopping"})
    /\ Less(decision.score, Dbl(routerCfg.routing.complexityThreshold))
    /\ decision.target = "cloud"

\* the cloud-capability gate decides the routed context
Gated ==
    Available /\ SeqHas(decision.tags, {"search", "recommendation", "real-time", "shopping"})

Threshold == Dbl(routerCfg.routing.complexityThreshold)

SimpleReasons == {"tool-prefer-local", "simple+prefer-cloud", "simple+text", "simple+local"}

\* C11: complex-task rule. On a heuristic classification that the gate does not
\* catch, a score at or above the threshold (equality included) gives: under
\* prefer-local, local-text if the score is below 0.7 and a text model exists,
\* otherwise cloud if available, otherwise local-text; under prefer-cloud, cloud
\* if available, otherwise local-text. No simple-task rule decides such a score.
C11_ComplexTask ==
    (Routed /\ LeaningPreference /\ HeuristicTurn /\ ~Gated
            /\ ~Less(decision.score, Threshold))
        => /\ decision.reason \notin SimpleReasons
           /\ decision.target =
                IF routerCfg.preference = "prefer-local"
                      /\ Less(decision.score, Dbl(70)) /\ models.localText # NoModel
                THEN "local-text"
                ELSE IF Available THEN "cloud" ELSE "local-text"

\* C11 witness: a score exactly at the threshold is routed as complex
C11_Witness ==
    /\ Routed
    /\ routerCfg.preference = "prefer-local"
    /\ HeuristicTurn
    /\ ~Gated
    /\ decision.score = Threshold
    /\ models.localText # NoModel
    /\ decision.target = "local-text"
    /\ decision.reason = "prefer-local+moderate"

\* C12: simple-task rule. On a heuristic classification below the threshold that
\* the gate does not catch, the target is local if a tag is file-read,
\* directory, command, tool-heavy-ctx, post-tool or confirmation; otherwise
\* cloud under prefer-cloud with the cloud available; otherwise local-text if a
\* text model exists; otherwise local.
C12_SimpleTask ==
    (Routed /\ LeaningPreference /\ HeuristicTurn /\ ~Gated
            /\ Less(decision.score, Threshold))
        => decision.target =
             IF SeqHas(decision.tags, {"file-read", "directory", "command",
                                       "tool-heavy-ctx", "post-tool", "confirmation"})
             THEN "local"
             ELSE IF routerCfg.preference = "prefer-cloud" /\ Available THEN "cloud"
             ELSE IF models.localText # NoModel THEN "local-text"
             ELSE "local"

\* C12 witness: a greeting under prefer-local with a text model goes to
\* local-text, with the cloud available
C12_Witness ==
    /\ Routed
    /\ routerCfg.preference = "prefer-local"
    /\ HeuristicTurn
    /\ decision.tags = <<"greeting">>
    /\ models.localText # NoModel
    /\ Available
    /\ decision.target = "local-text"

\* the last user text is empty (an emoji-only or whitespace-only text matches
\* no keyword family either and counts at most two words)
EmptyLastText == LastText = EmptyText

----------------------------------------------------------------------------
(* Classification of a text and of the text with one more keyword *)

ComplexWords == {"explain", "find", "write"}
SimpleWords == {"list", "run", "yes", "read"}

\* filler words: none, and up to and just below each word-count step
ScorePads == {0, 10, 11, 98, 99, 298, 299}

ScoreTexts ==
    {[toks |-> ts, pad |-> p] :
        ts \in UNION {[1..n -> ComplexWords \cup SimpleWords \cup {"file"}] :
                         n \in 0..MaxScoreToks},
        p \in ScorePads}

\* one user message, alone or after an assistant message with many tool calls
ScoreContexts ==
    {[messages |-> pre \o <<UserMsg(t)>>] :
        pre \in {<<>>, <<AssistantMsg("ollama", MaxToolCalls)>>}, t \in ScoreTexts}

\* the router of the classification: defaults, no force patterns
ScoreCfg == CallCfg(CallBlock(TRUE, Absent), Absent)

\* the text with the word k added in front of it or after it
AddWord(text, k, where) ==
    IF where = "start" THEN [text EXCEPT !.toks = <<k>> \o @]
    ELSE [text EXCEPT !.toks = Append(@, k)]

InitScore ==
    /\ cfg = ScoreCfg
    /\ host = CallHost
    /\ wrapper = "installed"
    /\ routerCfg = resolveHybridRouterConfig(ScoreCfg)
    /\ models = ResolvedModels(resolveHybridRouterConfig(ScoreCfg), CallHost)
    /\ context \in ScoreContexts
    /\ decision = NoDecision
    /\ prompts = BuiltPrompts(ScoreCfg.workspace)
    /\ resolves = NoResolver
    /\ wrappers = <<>>
    /\ calls = <<>>
    /\ heap = NoHeap
    /\ probe = NoProbe
    /\ launcher = NoLauncher

\* classifyComplexity(context, routerCfg.routing)
ClassifyText ==
    /\ probe.phase = "none"
    /\ probe' = [phase |-> "scored",
                 text |-> lastUserText(context.messages),
                 before |-> classifyComplexity(context, routerCfg.routing),
                 added |-> "", where |-> "", after |-> NoClass]
    /\ UNCHANGED <<cfg, host, wrapper, routerCfg, models, context, decision,
                   prompts, resolves, wrappers, calls, heap, launcher>>

\* classifyComplexity on the same context with a keyword added to the last user
\* text; a text that ends in filler words is extended at its start only
AddKeyword ==
    /\ probe.phase = "scored"
    /\ \E k \in ComplexWords \cup SimpleWords : \E where \in {"start", "end"} :
          /\ where = "end" => probe.text.pad = 0
          /\ context' = [context EXCEPT
                            !.messages[Len(context.messages)].content = AddWord(@, k, where)]
          /\ probe' = [probe EXCEPT
                          !.phase = "added", !.added = k, !.where = where,
                          !.after = classifyComplexity(
                                       [context EXCEPT !.messages[Len(context.messages)].content
                                                          = AddWord(@, k, where)],
                                       routerCfg.routing)]
    /\ UNCHANGED <<cfg, host, wrapper, routerCfg, models, decision,
                   prompts, resolves, wrappers, calls, heap, launcher>>

NextScore ==
    \/ ClassifyText
    \/ AddKeyword

SpecScore == InitScore /\ [][NextScore]_vars

----------------------------------------------------------------------------
(* hybrid-claw.sh, tui mode: gateway, PID file, EXIT trap *)

\* seconds start_gateway waits for the gateway to listen
GatewayWait == 15

\* processes are named by what they are: "old" is a gateway that runs before
\* the launcher starts, "new" the one the launcher starts; "none" is no process
\* (no listener on the port, no PID file)

\* is_gateway_running: something listens on the gateway port
is_gateway_running(l) == l.listener # "none"

\* kill "$pid": the process ends and no longer listens
Kill(l, pid) ==
    [l EXCEPT !.procs = @ \ {pid},
              !.listener = IF @ = pid THEN "none" ELSE @]

\* cleanup(): with a PID file, kill the process it names if it is alive and
\* remove the file
cleanup(l) ==
    IF l.pidFile # "none"
    THEN [(IF l.pidFile \in l.procs THEN Kill(l, l.pidFile) ELSE l)
             EXCEPT !.pidFile = "none", !.cleanupRan = TRUE]
    ELSE [l EXCEPT !.cleanupRan = TRUE]

\* the process of the launcher ends: the EXIT trap runs if the process is still
\* the shell that set it
ProcessExits(l, code) ==
    LET after == IF l.shell = "running" /\ l.trap THEN cleanup(l) ELSE l
    IN  [after EXCEPT !.pc = "exited", !.shell = "exited", !.exitCode = code]

\* the launcher is started in tui mode: a gateway may be running already, and
\* a PID file of an earlier run may exist
InitLauncher ==
    /\ cfg = CallCfg(CallBlock(FALSE, Absent), Absent)
    /\ host = CallHost
    /\ wrapper = "none"
    /\ routerCfg = NoRouterCfg
    /\ models = NoModels
    /\ context = NoContext
    /\ decision = NoDecision
    /\ prompts = FallbackPrompts
    /\ resolves = NoResolver
    /\ wrappers = <<>>
    /\ calls = <<>>
    /\ heap = NoHeap
    /\ probe = NoProbe
    /\ \E running \in BOOLEAN, file \in {"none", "old"} :
          launcher = [pc |-> "main", shell |-> "running", trap |-> FALSE,
                      procs |-> IF running THEN {"old"} ELSE {},
                      listener |-> IF running THEN "old" ELSE "none",
                      before |-> IF running THEN "old" ELSE "none",
                      pidFile |-> file, started |-> "none", waited |-> 0,
                      tuiRan |-> FALSE, cleanupRan |-> FALSE, exitCode |-> 0]

\* start_gateway up to its wait loop: return at once if the port is taken,
\* else start the gateway in the background and write its PID file
StartGateway ==
    /\ launcher.pc = "main"
    /\ launcher' =
          IF is_gateway_running(launcher)
          THEN [launcher EXCEPT !.pc = "launch"]
          ELSE [launcher EXCEPT !.pc = "waiting", !.procs = @ \cup {"new"},
                                !.pidFile = "new", !.started = "new", !.waited = 0]
    /\ UNCHANGED <<cfg, host, wrapper, routerCfg, models, context, decision,
                   prompts, resolves, wrappers, calls, heap, probe>>

\* the gateway the launcher started begins to listen on the port
GatewayListens ==
    /\ launcher.pc \in {"waiting", "launch", "tui"}
    /\ "new" \in launcher.procs
    /\ launcher.listener = "none"
    /\ launcher' = [launcher EXCEPT !.listener = "new"]
    /\ UNCHANGED <<cfg, host, wrapper, routerCfg, models, context, decision,
                   prompts, resolves, wrappers, calls, heap, probe>>

\* the gateway the launcher started ends on its own
GatewayEnds ==
    /\ launcher.pc \in {"waiting", "launch", "tui"}
    /\ "new" \in launcher.procs
    /\ launcher' = Kill(launcher, "new")
    /\ UNCHANGED <<cfg, host, wrapper, routerCfg, models, context, decision,
                   prompts, resolves, wrappers, calls, heap, probe>>

\* one round of the wait loop with nothing listening: a second passes, and
\* after GatewayWait of them the gateway is killed and the script exits with 1
\* (start_gateway || exit 1; the trap is not set yet)
WaitForGateway ==
    /\ launcher.pc = "waiting"
    /\ ~is_gateway_running(launcher)
    /\ launcher' =
          IF launcher.waited + 1 >= GatewayWait
          THEN ProcessExits(Kill([launcher EXCEPT !.waited = @ + 1], launcher.started), 1)
          ELSE [launcher EXCEPT !.waited = @ + 1]
    /\ UNCHANGED <<cfg, host, wrapper, routerCfg, models, context, decision,
                   prompts, resolves, wrappers, calls, heap, probe>>

\* the wait loop ends: the gateway listens, start_gateway returns 0
GatewayReady ==
    /\ launcher.pc = "waiting"
    /\ is_gateway_running(launcher)
    /\ launcher' = [launcher EXCEPT !.pc = "launch"]
    /\ UNCHANGED <<cfg, host, wrapper, routerCfg, models, context, decision,
                   prompts, resolves, wrappers, calls, heap, probe>>

\* trap cleanup EXIT; exec node ... tui: the trap is set and the shell is
\* replaced by the TUI process, which keeps the PID of the launcher
LaunchTui ==
    /\ launcher.pc = "launch"
    /\ launcher' = [launcher EXCEPT !.pc = "tui", !.trap = TRUE,
                                    !.shell = "replaced", !.tuiRan = TRUE]
    /\ UNCHANGED <<cfg, host, wrapper, routerCfg, models, context, decision,
                   prompts, resolves, wrappers, calls, heap, probe>>

\* the TUI exits, with any status
TuiExits ==
    /\ launcher.pc = "tui"
    /\ \E code \in {0, 1} : launcher' = ProcessExits(launcher, code)
    /\ UNCHANGED <<cfg, host, wrapper, routerCfg, models, context, decision,
                   prompts, resolves, wrappers, calls, heap, probe>>

NextLauncher ==
    \/ StartGateway
    \/ GatewayListens
    \/ GatewayEnds
    \/ WaitForGateway
    \/ GatewayReady
    \/ LaunchTui
    \/ TuiExits

SpecLauncher == InitLauncher /\ [][NextLauncher]_vars

\* a credential is found for the provider of the configured cloud model
CredentialExists == hasCloudApiKey(routerCfg.cloudModel, cfg, host)

\* C28: cloud is chosen only when it is usable. A decision with target cloud is
\* returned only if the cloud model was resolved and a credential exists for
\* its provider; when either is missing the target is local or local-text and
\* the model is one of the local models.
C28_CloudOnlyWhenUsable ==
    Routed =>
        /\ decision.target = "cloud" =>
              /\ models.cloud # NoModel
              /\ CredentialExists
              /\ decision.model = models.cloud
        /\ (models.cloud = NoModel \/ ~CredentialExists) =>
              /\ decision.target \in {"local", "local-text"}
              /\ decision.model \in {models.local, models.localText}

\* C28 witness: a credential exists but the cloud model did not resolve, a
\* force-cloud pattern matches, and the call stays on a local model
C28_Witness ==
    /\ Routed
    /\ LeaningPreference
    /\ CredentialExists
    /\ routerCfg.cloudModel # NoModel
    /\ models.cloud = NoModel
    /\ ForceCloudMatches
    /\ decision.target = "local-text"

\* values of the four declared degradation settings (the routed configuration
\* leaves all four out): one set alone, all four set
DegradationSettings ==
    LET none == [tools |-> Absent, tokens |-> Absent, unavailable |-> Absent,
                 error |-> Absent]
    IN  {[none EXCEPT !.tools = Set(FALSE)],
         [none EXCEPT !.tokens = Set(100)],
         [none EXCEPT !.unavailable = Set("error")],
         [none EXCEPT !.unavailable = Set("local")],
         [tools |-> Set(FALSE), tokens |-> Set(100), unavailable |-> Set("local"),
          error |-> Set("error")]}

\* the configuration c with the degradation settings s, all else the same
WithSettings(c, s) ==
    [c EXCEPT !.hybridRouter.routing.toolCallsPreferLocal = s.tools,
              !.hybridRouter.routing.maxLocalResponseTokens = s.tokens,
              !.hybridRouter.fallback.onCloudUnavailable = s.unavailable,
              !.hybridRouter.fallback.onLocalError = s.error]

\* the decision for the routed context under the configuration c
DecisionUnder(c) ==
    makeRoutingDecision(context, resolveHybridRouterConfig(c),
                        ResolvedModels(resolveHybridRouterConfig(c), host), c, host)

\* the options streamFn gets for decision d, a caller's model and options, and
\* a key for the provider switched to
OptionsUnder(d, model, options) ==
    WithKey(options,
            IF SwitchesProvider(EffectiveModel(d, model), model) THEN "key" ELSE NoKey)

\* C30: the declared degradation settings do not influence routing. Router
\* configurations that differ only in fallback.onCloudUnavailable,
\* fallback.onLocalError, routing.toolCallsPreferLocal or
\* routing.maxLocalResponseTokens give the same decision (target, model,
\* reason, score, tags) for every context and the same downstream options;
\* onCloudUnavailable never turns a cloud-unavailable decision into an error.
C30_DegradationSettingsInert ==
    Routed =>
        \A s \in DegradationSettings :
            LET other == DecisionUnder(WithSettings(cfg, s))
            IN  /\ other = decision
                /\ other.target \in {"local", "local-text", "cloud"}
                /\ \A model \in CallerModels, options \in CallOptions :
                      OptionsUnder(other, model, options)
                         = OptionsUnder(decision, model, options)

\* C30 witness: a force-cloud match without the cloud available is degraded to
\* local-text, and the same configuration with onCloudUnavailable = error
\* (which the resolved configuration carries) is degraded in the same way
C30_Witness ==
    /\ Routed
    /\ LeaningPreference
    /\ ~Available
    /\ decision.reason = "force-cloud-no-key"
    /\ decision.target = "local-text"
    /\ \E s \in DegradationSettings :
          /\ resolveHybridRouterConfig(WithSettings(cfg, s)).fallback.onCloudUnavailable
                = "error"
          /\ DecisionUnder(WithSettings(cfg, s)).target = "local-text"

----------------------------------------------------------------------------
(* Properties of wrapped calls *)

Wrappers == 1..MaxWrappers
Calls == 1..MaxCalls

\* call c has been started
Started(c) == calls[c].pc # "idle"

\* call c has handed over to streamFn (and possibly got its result back)
Handed(c) == calls[c].pc \in {"streaming", "returned", "threw"}

\* call c is over
Finished(c) == calls[c].pc \in {"returned", "threw"}

\* C14: within one wrapper's lifetime the credential resolver is invoked at most
\* once for each provider, whatever the sequence and interleaving of the wrapped
\* calls: also when a call starts while a resolution for the same provider is
\* pending, and after a resolution that failed or returned no key.
C14_ResolvedOncePerProvider ==
    \A w \in Wrappers : \A p \in Providers : wrappers[w].resolutions[p] <= 1

\* a step keeps every stored key, and a call that starts and switches to a
\* provider with a stored key runs on to streamFn with that key in its options
KeepsAndUsesKeys ==
    /\ \A w \in Wrappers : \A p \in Providers :
          wrappers[w].cache[p] # NoKey => wrappers'[w].cache[p] = wrappers[w].cache[p]
    /\ \A c \in Calls :
          (calls[c].pc = "idle" /\ calls'[c].pc # "idle") =>
             LET call == calls'[c]
                 stored == wrappers[call.w].cache[call.effModel.provider]
             IN  (SwitchesProvider(call.effModel, call.model) /\ stored # NoKey) =>
                    /\ call.pc = "streaming"
                    /\ call.effOptions.apiKey = Set(stored)
                    /\ wrappers' = wrappers

\* C15: the credential cache is monotonic: a key stored for a provider is never
\* removed and never replaced by a different value, and every wrapped call that
\* starts afterwards and switches to that provider passes the stored key
\* downstream as options.apiKey (without resolving again).
C15_CacheMonotonic == [][KeepsAndUsesKeys]_vars

\* a call that brought its own key was started after the provider's key had been
\* stored and has handed the stored key to streamFn; the other provider's key is
\* in the cache as well
C15_Witness ==
    \E c \in Calls :
        /\ Handed(c)
        /\ calls[c].cached # NoKey
        /\ calls[c].options.apiKey = Set("key-caller")
        /\ calls[c].effOptions.apiKey = Set(calls[c].cached)
        /\ wrappers[calls[c].w].cache[calls[c].effModel.provider] = calls[c].cached

\* the prompts built from the workspace of the wrapper call c goes through
OwnPrompts(c) == BuiltPrompts(wrappers[calls[c].w].cfg.workspace)

\* C16: the identity preamble and the two local system prompts are fixed at a
\* wrapper's construction: every local or local-text call made through a wrapper
\* receives the system prompt built from that wrapper's own workspace, also when
\* other wrappers are constructed afterwards in the same process.
C16_PromptOfOwnWrapper ==
    \A c \in Calls :
        Handed(c) =>
           /\ calls[c].decision.target = "local" =>
                 calls[c].effContext.systemPrompt = Set(OwnPrompts(c).tool)
           /\ calls[c].decision.target = "local-text" =>
                 calls[c].effContext.systemPrompt = Set(OwnPrompts(c).text)

\* the credential step of call c is over: no provider switch, or a key from the
\* cache, or a resolution that has settled
CredentialStepDone(c) ==
    SwitchesProvider(calls[c].effModel, calls[c].model) =>
       \/ calls[c].cached # NoKey /\ calls[c].apiKey = calls[c].cached
       \/ /\ wrappers[calls[c].w].resolutions[calls[c].effModel.provider] >= 1
          /\ calls[c].apiKey = KeyAfter(resolves[calls[c].effModel.provider])

\* the context and the options of call c are the ones made for its decision
AdaptationDone(c) ==
    /\ calls[c].effOptions = WithKey(calls[c].options, calls[c].apiKey)
    /\ calls[c].effContext.messages = calls[c].context.messages
    /\ calls[c].effContext.tools
          = AdaptContext(calls[c].context, calls[c].decision.target, prompts).tools
    /\ IF calls[c].decision.target = "cloud"
       THEN calls[c].effContext = calls[c].context
       ELSE calls[c].effContext.systemPrompt # calls[c].context.systemPrompt

\* C17: each wrapped call invokes streamFn exactly once, only after its routing
\* decision, credential step and context adaptation are complete, and returns
\* the downstream result unchanged; streamFn is never invoked a second time for
\* the same call, also when the downstream call fails.
C17_DelegatesOnce ==
    \A c \in Calls :
        /\ calls[c].streamed <= 1
        /\ calls[c].pc \in {"idle", "resolving"} =>
              calls[c].streamed = 0 /\ calls[c].result = "none"
        /\ Handed(c) =>
              /\ calls[c].streamed = 1
              /\ calls[c].decision
                    = makeRoutingDecision(calls[c].context, wrappers[calls[c].w].routerCfg,
                                          wrappers[calls[c].w].models, wrappers[calls[c].w].cfg,
                                          host)
              /\ calls[c].effModel = EffectiveModel(calls[c].decision, calls[c].model)
              /\ CredentialStepDone(c)
              /\ AdaptationDone(c)
        /\ calls[c].pc = "streaming" => calls[c].result = "none"
        /\ Finished(c) =>
              calls[c].downstream \in {"stream", "throws"}
              /\ calls[c].result = calls[c].downstream

\* a call that resolved its key itself and whose downstream call failed: it is
\* over, with the failure as its result and streamFn invoked once
C17_Witness ==
    \E c \in Calls :
        /\ calls[c].pc = "threw"
        /\ calls[c].cached = NoKey /\ calls[c].apiKey # NoKey
        /\ calls[c].streamed = 1
        /\ calls[c].result = "throws"

----------------------------------------------------------------------------
(* Properties of the objects of a wrapped call *)

\* the wrapped call has handed its effective context and options to streamFn
HandedOver == heap.phase \in {"handed", "readapted"}

\* the objects that existed before the call are what they were
SameAsBefore ==
    /\ SubSeq(heap.ctxs, 1, Len(heap.before.ctxs)) = heap.before.ctxs
    /\ SubSeq(heap.lists, 1, Len(heap.before.lists)) = heap.before.lists
    /\ SubSeq(heap.tools, 1, Len(heap.before.tools)) = heap.before.tools
    /\ SubSeq(heap.opts, 1, Len(heap.before.opts)) = heap.before.opts

\* C18: no wrapped call, for any target, modifies the caller's context object
\* (its messages, tools list, system prompt), any tool object in it, or the
\* caller's options object: when the wrapper has done its work and nobody else
\* has changed anything, they are equal to what they were before.
C18_CallerObjectsUntouched ==
    (HandedOver /\ heap.changes = 0) =>
        /\ SameAsBefore
        /\ Deref(heap, heap.ctx) = context
        /\ heap.opts[heap.options] = heap.before.opts[heap.options]

\* a local call with a key switched in: the effective context and options are
\* new objects that differ from the caller's, which are as they were
C18_Witness ==
    /\ heap.phase = "handed" /\ heap.changes = 0
    /\ heap.target = "local"
    /\ heap.effCtx # heap.ctx /\ heap.effOpts # heap.options
    /\ Deref(heap, heap.effCtx).tools # Deref(heap, heap.ctx).tools
    /\ Deref(heap, heap.effCtx).tools # Set(<<>>)
    /\ heap.opts[heap.effOpts] # heap.opts[heap.options]
    /\ SameAsBefore

\* C19: context adaptation is pure: the context handed to streamFn is the
\* caller's context itself (cloud) or a fresh structure that shares no mutable
\* state with it, so that a change made later through the adapted context (to
\* its messages list, its tools list or a tool entry) is never visible through
\* the caller's context.
C19_NoSharedState ==
    HandedOver =>
        IF heap.target = "cloud"
        THEN heap.effCtx = heap.ctx
        ELSE heap.effCtx # heap.ctx /\ Deref(heap, heap.ctx) = context

Targets == {"local", "local-text", "cloud"}

\* C20: context adaptation is idempotent: for each target T and every context,
\* adapting the adapted context to T again yields a context structurally equal
\* to the first adaptation: same system prompt, same tools with the same
\* simplified schemas, same messages.
C20_AdaptIdempotent ==
    /\ heap.phase = "ready" =>
          \A T \in Targets :
             LET once == AdaptContext(Deref(heap, heap.ctx), T, prompts)
             IN  AdaptContext(once, T, prompts) = once
    /\ heap.phase = "readapted" =>
          /\ heap.first = AdaptContext(context, heap.target, prompts)
          /\ heap.again = heap.first

\* a local call whose tools were simplified and reduced, adapted a second time
C20_Witness ==
    /\ heap.phase = "readapted"
    /\ heap.target = "local"
    /\ heap.first.tools # context.tools
    /\ heap.first.tools # Set(<<>>)
    /\ heap.first.systemPrompt # context.systemPrompt
    /\ heap.again = heap.first

\* the local system prompts of the module, as context.systemPrompt values
LocalPrompts == {Set(prompts.tool), Set(prompts.text)}

\* C21: when the target is cloud, the context passed to streamFn is the caller's
\* context unchanged (the host's system prompt, all tools, all messages); the
\* identity preamble and the local system prompts are passed downstream only
\* for the targets local and local-text.
C21_CloudContextUnchanged ==
    HandedOver =>
        /\ heap.target = "cloud" =>
              /\ heap.effCtx = heap.ctx
              /\ heap.ctxs[heap.ctx] = heap.before.ctxs[heap.ctx]
              /\ heap.changes = 0 => Deref(heap, heap.effCtx) = context
        /\ heap.ctxs[heap.effCtx].systemPrompt \in LocalPrompts
              <=> heap.target \in {"local", "local-text"}

\* a cloud call with tools: streamFn holds the caller's context object
C21_Witness ==
    /\ heap.phase = "handed" /\ heap.changes = 0
    /\ heap.target = "cloud"
    /\ heap.effCtx = heap.ctx
    /\ decision.model = models.cloud
    /\ Deref(heap, heap.effCtx).tools \notin {Absent, Set(<<>>)}
    /\ Deref(heap, heap.effCtx).systemPrompt \notin LocalPrompts

\* the names of the simplified tool table
TableNames == {"read", "exec", "write", "edit"}

\* the tools of the caller's context and the tools handed downstream
CallerTools == OrElse(context.tools, <<>>)
PassedTools == OrElse(Deref(heap, heap.effCtx).tools, <<>>)

\* passed is a copy of tool in which only the schema fields are replaced
SchemaOnlyCopy(passed, tool) ==
    /\ passed.name = tool.name
    /\ passed.function = tool.function
    /\ passed.execute = tool.execute
    /\ passed.description = Set(SIMPLIFIED_TOOL_SCHEMAS[ToolName(tool)].description)
    /\ passed.parameters = Set(SIMPLIFIED_TOOL_SCHEMAS[ToolName(tool)].parameters)
    /\ passed.inputSchema = passed.parameters

\* C22: when the target is local, the tools passed downstream are exactly the
\* intersection of the caller's tools with the table {read, exec, write, edit}:
\* every passed tool has a name of the table, names are distinct (at most four
\* entries), every caller tool named in the table is represented, and each
\* passed tool is a copy of a caller's tool of that name in which only
\* description, parameters and inputSchema are replaced. When the target is
\* local-text the tool list is empty.
C22_ToolsIntersectTable ==
    (HandedOver /\ heap.changes = 0) =>
        /\ heap.target = "local-text" => Deref(heap, heap.effCtx).tools = Set(<<>>)
        /\ heap.target = "local" =>
              /\ Deref(heap, heap.effCtx).tools # Absent
              /\ Len(PassedTools) <= 4
              /\ \A i \in 1..Len(PassedTools) :
                    /\ ToolName(PassedTools[i]) \in TableNames
                    /\ \A j \in 1..Len(PassedTools) :
                          ToolName(PassedTools[j]) = ToolName(PassedTools[i]) => j = i
                    /\ \E k \in 1..Len(CallerTools) :
                          SchemaOnlyCopy(PassedTools[i], CallerTools[k])
              /\ \A k \in 1..Len(CallerTools) :
                    ToolName(CallerTools[k]) \in TableNames =>
                       \E i \in 1..Len(PassedTools) :
                          ToolName(PassedTools[i]) = ToolName(CallerTools[k])

----------------------------------------------------------------------------
(* Properties of the credential step *)

\* call c switched provider and ended its credential step without a key: the
\* resolver threw or returned no key
Keyless(c) ==
    /\ calls[c].pc \notin {"idle", "resolving"}
    /\ SwitchesProvider(calls[c].effModel, calls[c].model)
    /\ calls[c].apiKey = NoKey

\* the decision the wrapper of call c makes for the call's context
DecisionOf(c) ==
    makeRoutingDecision(calls[c].context, wrappers[calls[c].w].routerCfg,
                        wrappers[calls[c].w].models, wrappers[calls[c].w].cfg, host)

\* a resolution that settles without a key leaves the cache and authStorage as
\* they are, and the call goes on to streamFn
FailureStoresNothing ==
    \A c \in Calls :
        (calls[c].pc = "resolving" /\ calls'[c].pc # "resolving"
            /\ resolves[calls[c].effModel.provider].kind \in {"none", "throws"}) =>
           /\ calls'[c].pc = "streaming"
           /\ calls'[c].apiKey = NoKey
           /\ wrappers' = wrappers

\* a call without a key has been handed to streamFn once, with the caller's
\* options, the adapted context and the model of the decision
KeylessProceeds ==
    \A c \in Calls :
        Keyless(c) =>
           /\ Handed(c)
           /\ calls[c].streamed = 1
           /\ calls[c].effOptions = calls[c].options
           /\ calls[c].decision = DecisionOf(c)
           /\ calls[c].effModel = EffectiveModel(DecisionOf(c), calls[c].model)
           /\ AdaptationDone(c)

\* C23: a credential failure is never fatal to a call: when the resolver throws
\* or returns no key for the target provider, the wrapper stores nothing in the
\* cache, still adapts the context and delegates to streamFn with the caller's
\* original options (no apiKey added); the target is not changed by the failure.
C23_CredentialFailureNotFatal == [](KeylessProceeds) /\ [][FailureStoresNothing]_vars

\* a call from the cloud model routed to local: the resolver had no key for the
\* local provider, the context was adapted and the caller's options passed on
C23_Witness ==
    \E c \in Calls :
        /\ Keyless(c) /\ Handed(c)
        /\ resolves[calls[c].effModel.provider].kind = "none"
        /\ calls[c].decision.target = "local"
        /\ calls[c].effContext # calls[c].context
        /\ calls[c].effOptions = calls[c].options
        /\ wrappers[calls[c].w].cache[calls[c].effModel.provider] = NoKey

\* the decision's model of call c has the provider of the caller's model
SameProvider(c) == calls[c].effModel.provider = calls[c].model.provider

\* a call that stays with the caller's provider never waits for the resolver,
\* holds no key from the cache or the resolver, and hands the caller's options on
StaysClearOfCredentials ==
    \A c \in Calls :
        (Started(c) /\ SameProvider(c)) =>
           /\ calls[c].pc # "resolving"
           /\ calls[c].cached = NoKey
           /\ calls[c].apiKey = NoKey
           /\ Handed(c) => calls[c].effOptions = calls[c].options

\* a call that switches provider and has a key hands on the caller's options
\* with apiKey set to it, the key being the cached or the just resolved one
SwitchCarriesKey ==
    \A c \in Calls :
        (Handed(c) /\ ~SameProvider(c) /\ calls[c].apiKey # NoKey) =>
           /\ calls[c].effOptions = [calls[c].options EXCEPT !.apiKey = Set(calls[c].apiKey)]
           /\ calls[c].apiKey = IF calls[c].cached # NoKey THEN calls[c].cached
                                 ELSE resolves[calls[c].effModel.provider].apiKey

\* a step changes the cache, authStorage or the count of resolutions of a
\* wrapper only on behalf of a call that switches provider
OnlySwitchesTouch ==
    \A w \in Wrappers :
        (wrappers[w].state = "installed" /\ wrappers'[w] # wrappers[w]) =>
            \E c \in Calls :
                /\ calls'[c] # calls[c]
                /\ calls'[c].w = w
                /\ calls'[c].effModel.provider # calls'[c].model.provider

\* C26: credentials are touched only on a provider switch. A call whose
\* decision's model has the provider of the caller's model invokes no resolver,
\* reads and writes no cache and passes the caller's options as is; a call that
\* switches provider with a key available (cached or just resolved) passes the
\* caller's options with apiKey set to that key.
C26_CredentialsOnSwitchOnly ==
    [](StaysClearOfCredentials /\ SwitchCarriesKey) /\ [][OnlySwitchesTouch]_vars

\* one call stayed with its provider (another model of it) and passed the
\* caller's key on; another call switched provider and passed the resolved key
C26_Witness ==
    \E c, d \in Calls :
        /\ Handed(c) /\ SameProvider(c)
        /\ calls[c].effModel # calls[c].model
        /\ calls[c].options.apiKey = Set("key-caller")
        /\ calls[c].effOptions = calls[c].options
        /\ Handed(d) /\ ~SameProvider(d)
        /\ calls[d].options.apiKey = Set("key-caller")
        /\ calls[d].effOptions.apiKey = Set(resolves[calls[d].effModel.provider].apiKey)
        /\ \A w \in Wrappers : wrappers[w].resolutions[calls[c].effModel.provider] = 0

\* the key the resolver has for provider p (NoKey when it has none)
KeyOf(p) == KeyAfter(resolves[p])

----------------------------------------------------------------------------
(* Properties of the score *)

\* both classifications of the probe were made by the heuristic
BothHeuristic ==
    /\ probe.phase = "added"
    /\ probe.before.reason = "heuristic"
    /\ probe.after.reason = "heuristic"

SeqRange(q) == {q[i] : i \in 1..Len(q)}

SimpleTags == {"file-read", "directory", "command", "confirmation", "greeting"}

\* the tags the added keyword brought
NewTags == SeqRange(probe.after.tags) \ SeqRange(probe.before.tags)

\* the added word makes its simple keyword match in the longer text
SimpleKeywordMatches ==
    \E t \in SimpleTags \cap SeqRange(probe.after.tags) :
        t = (CASE probe.added = "list" -> "directory"
               [] probe.added = "run" -> "command"
               [] probe.added = "yes" -> "confirmation"
               [] OTHER -> "file-read")

\* C24 as stated: on the heuristic path, adding a complex keyword to a text never
\* decreases the clamped score and adding a simple keyword never increases it,
\* the word-count, multi-signal and detailed-query boosts included.
C24_ScoreMonotone ==
    BothHeuristic =>
        /\ probe.added \in ComplexWords => ~Less(probe.after.score, probe.before.score)
        /\ (probe.added \in SimpleWords /\ SimpleKeywordMatches) =>
              ~Less(probe.before.score, probe.after.score)

\* C24 (amended): with the keyword added as a word at the start or the end of
\* the text, a complex keyword never decreases the clamped score, and a simple
\* keyword never increases it unless the addition brings a tag other than a
\* simple keyword's (a word-count boost or a complex pattern that now matches).
C24_ScoreMonotoneSameBoosts ==
    BothHeuristic =>
        /\ probe.added \in ComplexWords => ~Less(probe.after.score, probe.before.score)
        /\ (probe.added \in SimpleWords /\ NewTags \subseteq SimpleTags) =>
              ~Less(probe.before.score, probe.after.score)

\* a simple keyword in front of a twelve-word text with a complex keyword: no
\* new boost (the discount of the keyword aside), and the score goes down
C24_Witness ==
    /\ BothHeuristic
    /\ probe.added \in SimpleWords
    /\ NewTags \subseteq SimpleTags /\ NewTags # {}
    /\ WordCount(probe.text) > 12
    /\ Less(probe.after.score, probe.before.score)
    /\ Less(Dbl(0), probe.after.score)

\* what classifyComplexity returns for the routed context
Classified == classifyComplexity(context, routerCfg.routing)

PostToolClass ==
    [score |-> Dbl(0), reason |-> "post-tool-turn", tags |-> <<"post-tool">>]

----------------------------------------------------------------------------
(* Properties of the launcher *)

\* the launcher started the gateway and wrote its PID file, the gateway came
\* up, the TUI ran and has exited
OwnGatewayTuiOver ==
    /\ launcher.pc = "exited"
    /\ launcher.tuiRan
    /\ launcher.started = "new"

\* C27: gateway lifecycle of the launcher in tui mode. If the launcher itself
\* started the gateway, then after the TUI exits the cleanup handler has run,
\* the gateway process is stopped and the PID file is removed; a gateway that
\* was running before the launcher started is not stopped by it.
C27_GatewayLifecycle ==
    /\ OwnGatewayTuiOver =>
          /\ launcher.cleanupRan
          /\ "new" \notin launcher.procs
          /\ launcher.pidFile = "none"
    /\ launcher.before = "old" => "old" \in launcher.procs

====
